---- MODULE Spec2Model ----
(***************************************************************************)
(* Model of the OLO metrics recompute: the compute engine                  *)
(* (utils/computeEngine.ts), the compute worker and its launcher           *)
(* (workers/compute.worker.ts, utils/workers.ts), the screens that start   *)
(* recomputes, and the per-project IndexedDB store (db/projectDb.ts).      *)
(*                                                                         *)
(* Conventions.                                                            *)
(*  - A JavaScript array and a Dexie toArray() result is a sequence.  A     *)
(*    table's rows come in primary-key order; the key of a transaction or  *)
(*    event (transactionId, eventId) is independent of its other fields,   *)
(*    so any order of the modelled fields occurs.                          *)
(*  - A JavaScript Map is a sequence of [key, value] entries in insertion  *)
(*    order (MapHas, MapGet, MapSet).                                      *)
(*  - undefined and null are the value Undefined; a date is a day number   *)
(*    d >= 0 standing for the ISO string of midnight UTC of day d after    *)
(*    1970-01-01, and GetTime(d) = d * DayMs is new Date(..).getTime().    *)
(*  - A quantile is a number of tenths (9 is 0.9).                         *)
(***************************************************************************)
EXTENDS Integers, Sequences, FiniteSets, TLC

\* ------------------------------------------------------------------ bounds
\* Jobs (user requests for a recompute) in one run of the concurrent model.
MaxJobs == 2
\* Dates are days 0..MaxDay after 1970-01-01.
MaxDay == 2
\* The longest event, transaction and edge lists of the drawn inputs.
MaxRows == 2
\* The most customers in the drawn inputs.
MaxCustomers == 4
MaxTabs == 3

\* ------------------------------------------------------- values and types
Undefined == -1
\* Number('abc'): the number that is not a number
NaN == -2
DayMs == 24 * 60 * 60 * 1000

\* JavaScript truthiness of a number or undefined/null: 0 is falsy.
Truthy(x) == x /= Undefined /\ x /= 0

\* new Date(isoString).getTime()
GetTime(date) == date * DayMs

\* Customer and channel ids, in IndexedDB key order.
CustomerOrder == <<"c1", "c2", "c3", "c4", "c5">>
ChannelOrder == <<"brand", "paid">>
ChannelIds == {ChannelOrder[i] : i \in 1..Len(ChannelOrder)}
EventTypes == {"churn", "visit"}
SegmentKeys == <<"HIGH", "MID", "LOW">>
Days == 0..MaxDay

defaultModelConfig ==
    [ltvWindowDays |-> Undefined,
     churnEventTypes |-> {},
     segmentHighQuantile |-> 9,
     segmentMidQuantile |-> 7,
     attributionMode |-> "channel_field",
     cacSpendSource |-> "daily",
     cacLookbackDays |-> Undefined]

\* ------------------------------------------------------------ JS Map
MapHas(m, k) == \E i \in 1..Len(m) : m[i].key = k

MapIndex(m, k) == CHOOSE i \in 1..Len(m) : m[i].key = k

\* Map.get of a number-valued map: undefined when the key is absent.
MapGet(m, k) == IF MapHas(m, k) THEN m[MapIndex(m, k)].value ELSE Undefined

\* An entry appended whether or not the key is there (a list of pairs, not a Map).
MapPush(m, k, v) == Append(m, [key |-> k, value |-> v])

\* Map.set: an existing key keeps its place, a new key is appended.
MapSet(m, k, v) ==
    IF MapHas(m, k)
    THEN [m EXCEPT ![MapIndex(m, k)] = [key |-> k, value |-> v]]
    ELSE Append(m, [key |-> k, value |-> v])

\* -------------------------------------------------------- buildChurnMap
ChurnStep(churnDates, event, config) ==
    IF event.type \notin config.churnEventTypes
    THEN churnDates
    ELSE LET ts == GetTime(event.date)
             current == MapGet(churnDates, event.customerId)
         IN  IF ~Truthy(current) \/ ts < current
             THEN MapSet(churnDates, event.customerId, ts)
             ELSE churnDates

RECURSIVE ChurnFold(_, _, _, _)
ChurnFold(churnDates, events, i, config) ==
    IF i > Len(events)
    THEN churnDates
    ELSE ChurnFold(ChurnStep(churnDates, events[i], config), events, i + 1, config)

buildChurnMap(events, config) == ChurnFold(<<>>, events, 1, config)

\* ------------------------------------------------ computeCustomerTotals
\* customers.forEach: the acquisition lookup (only truthy timestamps) ...
RECURSIVE AcquisitionFold(_, _, _)
AcquisitionFold(lookup, customers, i) ==
    IF i > Len(customers)
    THEN lookup
    ELSE LET customer == customers[i]
             ts == IF customer.acquisitionDate /= Undefined
                   THEN GetTime(customer.acquisitionDate)
                   ELSE Undefined
         IN  AcquisitionFold(
                 IF Truthy(ts) THEN MapSet(lookup, customer.customerId, ts) ELSE lookup,
                 customers, i + 1)

\* ... and one zero aggregate per customer.
ZeroAggregate == [ltv |-> 0, txnCount |-> 0, first |-> Undefined, last |-> Undefined]

RECURSIVE TotalsInitFold(_, _, _)
TotalsInitFold(totals, customers, i) ==
    IF i > Len(customers)
    THEN totals
    ELSE TotalsInitFold(MapSet(totals, customers[i].customerId, ZeroAggregate),
                        customers, i + 1)

WindowMs(config) ==
    IF Truthy(config.ltvWindowDays) THEN config.ltvWindowDays * DayMs ELSE Undefined

\* Whether transactions.forEach returns early for txn (the txn is left out).
TxnSkipped(txn, churnDates, acquisitionLookup, windowMs) ==
    LET churnTs == MapGet(churnDates, txn.customerId)
        txnTs == GetTime(txn.date)
        acquisitionTs == MapGet(acquisitionLookup, txn.customerId)
    IN  \/ Truthy(churnTs) /\ txnTs > churnTs
        \/ Truthy(windowMs) /\ Truthy(acquisitionTs) /\ txnTs > acquisitionTs + windowMs

TxnStep(totals, txn, churnDates, acquisitionLookup, windowMs) ==
    IF TxnSkipped(txn, churnDates, acquisitionLookup, windowMs)
    THEN totals
    ELSE LET entry == IF MapHas(totals, txn.customerId)
                      THEN totals[MapIndex(totals, txn.customerId)].value
                      ELSE ZeroAggregate
         IN  MapSet(totals, txn.customerId,
                    [ltv |-> entry.ltv + txn.revenueAmount,
                     txnCount |-> entry.txnCount + 1,
                     first |-> IF entry.first = Undefined \/ txn.date < entry.first
                               THEN txn.date ELSE entry.first,
                     last |-> IF entry.last = Undefined \/ txn.date > entry.last
                              THEN txn.date ELSE entry.last])

RECURSIVE TxnFold(_, _, _, _, _, _)
TxnFold(totals, transactions, i, churnDates, acquisitionLookup, windowMs) ==
    IF i > Len(transactions)
    THEN totals
    ELSE TxnFold(TxnStep(totals, transactions[i], churnDates, acquisitionLookup, windowMs),
                 transactions, i + 1, churnDates, acquisitionLookup, windowMs)

computeCustomerTotals(customers, transactions, churnDates, config) ==
    TxnFold(TotalsInitFold(<<>>, customers, 1), transactions, 1, churnDates,
            AcquisitionFold(<<>>, customers, 1), WindowMs(config))

\* -------------------------------------------------------- assignSegments
\* Array.prototype.sort((a, b) => a - b): ascending, by insertion.
RECURSIVE Insert(_, _)
Insert(sorted, x) ==
    IF sorted = <<>> \/ x >= sorted[Len(sorted)]
    THEN Append(sorted, x)
    ELSE Append(Insert(SubSeq(sorted, 1, Len(sorted) - 1), x), sorted[Len(sorted)])

RECURSIVE SortFold(_, _, _)
SortFold(sorted, values, i) ==
    IF i > Len(values) THEN sorted ELSE SortFold(Insert(sorted, values[i]), values, i + 1)

SortAscending(values) == SortFold(<<>>, values, 1)

Max(a, b) == IF a >= b THEN a ELSE b

\* x ?? d
OrElse(x, d) == IF x = Undefined THEN d ELSE x

\* Math.floor(Math.max(n - 1, 0) * q), q in tenths.
\* The index taken on the length, not on the last index.
QuantileIndexOfLength(n, quantile) == (n * quantile) \div 10

QuantileIndex(n, quantile) == IF quantile = NaN THEN NaN ELSE (Max(n - 1, 0) * quantile) \div 10

\* ltvs[idx] ?? 0 (idx counts from 0).
ThresholdAt(ltvs, idx) == IF idx + 1 \in 1..Len(ltvs) THEN ltvs[idx + 1] ELSE 0

SortedLtvs(totals) == SortAscending([i \in 1..Len(totals) |-> totals[i].value.ltv])

HighThreshold(totals, config) ==
    ThresholdAt(SortedLtvs(totals),
                QuantileIndex(Len(totals), OrElse(config.segmentHighQuantile, 9)))

MidThreshold(totals, config) ==
    ThresholdAt(SortedLtvs(totals),
                QuantileIndex(Len(totals), OrElse(config.segmentMidQuantile, 7)))

SegmentOf(ltv, n, highThreshold, midThreshold) ==
    IF n = 0 THEN "LOW"
    ELSE IF ltv >= highThreshold THEN "HIGH"
    ELSE IF ltv >= midThreshold THEN "MID"
    ELSE "LOW"

assignSegments(totals, config) ==
    [i \in 1..Len(totals) |->
        [key |-> totals[i].key,
         value |-> SegmentOf(totals[i].value.ltv, Len(totals),
                             HighThreshold(totals, config), MidThreshold(totals, config))]]

\* --------------------------------------------------- buildCustomerMetrics
\* segments.get(customerId) ?? 'LOW'
SegmentGet(segments, customerId) ==
    IF MapHas(segments, customerId)
    THEN segments[MapIndex(segments, customerId)].value
    ELSE "LOW"

buildCustomerMetrics(totals, segments) ==
    [i \in 1..Len(totals) |->
        [customerId |-> totals[i].key,
         ltv |-> totals[i].value.ltv,
         txnCount |-> totals[i].value.txnCount,
         firstPurchaseDate |-> totals[i].value.first,
         lastPurchaseDate |-> totals[i].value.last,
         ltvSegment |-> SegmentGet(segments, totals[i].key)]]

\* ------------------------------------------------------ summarizeSegments
RECURSIVE SegmentCount(_, _, _)
SegmentCount(customerMetrics, segmentKey, i) ==
    IF i > Len(customerMetrics) THEN 0
    ELSE (IF customerMetrics[i].ltvSegment = segmentKey THEN 1 ELSE 0)
         + SegmentCount(customerMetrics, segmentKey, i + 1)

RECURSIVE SegmentRevenue(_, _, _)
SegmentRevenue(customerMetrics, segmentKey, i) ==
    IF i > Len(customerMetrics) THEN 0
    ELSE (IF customerMetrics[i].ltvSegment = segmentKey THEN customerMetrics[i].ltv ELSE 0)
         + SegmentRevenue(customerMetrics, segmentKey, i + 1)

\* The summary without the MID row.
summarizeHighAndLow(customerMetrics) ==
    [k \in 1..2 |->
        LET segmentKey == <<"HIGH", "LOW">>[k]
        IN  [segmentKey |-> segmentKey,
             customerCount |-> SegmentCount(customerMetrics, segmentKey, 1),
             totalRevenue |-> SegmentRevenue(customerMetrics, segmentKey, 1),
             highChannelCount |-> 0]]

\* avgLtv is the exact fraction totalRevenue / customerCount (0 when the count is 0).
summarizeSegments(customerMetrics) ==
    [k \in 1..Len(SegmentKeys) |->
        [segmentKey |-> SegmentKeys[k],
         customerCount |-> SegmentCount(customerMetrics, SegmentKeys[k], 1),
         totalRevenue |-> SegmentRevenue(customerMetrics, SegmentKeys[k], 1),
         highChannelCount |-> 0]]

\* -------------------------------------------------- computeChannelMetrics
\* A missing or empty channel id (both falsy).
NoChannel == ""

\* customerChannel.get(customerId)
ChannelGet(customerChannel, customerId) ==
    IF MapHas(customerChannel, customerId)
    THEN customerChannel[MapIndex(customerChannel, customerId)].value
    ELSE NoChannel

\* acquiredVia.forEach without the has() test: the last edge of a customer wins.
RECURSIVE EdgeFoldLastWins(_, _, _)
EdgeFoldLastWins(customerChannel, acquiredVia, i) ==
    IF i > Len(acquiredVia)
    THEN customerChannel
    ELSE EdgeFoldLastWins(MapSet(customerChannel, acquiredVia[i].customerId,
                                 acquiredVia[i].channelId),
                          acquiredVia, i + 1)

\* acquiredVia.forEach: the first edge of a customer wins.
RECURSIVE EdgeFold(_, _, _)
EdgeFold(customerChannel, acquiredVia, i) ==
    IF i > Len(acquiredVia)
    THEN customerChannel
    ELSE EdgeFold(IF MapHas(customerChannel, acquiredVia[i].customerId)
                  THEN customerChannel
                  ELSE MapSet(customerChannel, acquiredVia[i].customerId,
                              acquiredVia[i].channelId),
                  acquiredVia, i + 1)

\* customers.forEach: a truthy channelSourceId.
RECURSIVE FieldFold(_, _, _)
FieldFold(customerChannel, customers, i) ==
    IF i > Len(customers)
    THEN customerChannel
    ELSE FieldFold(IF customers[i].channelSourceId /= NoChannel
                   THEN MapSet(customerChannel, customers[i].customerId,
                               customers[i].channelSourceId)
                   ELSE customerChannel,
                   customers, i + 1)

\* Edges filling in, customer by customer, where the field is missing.
customerChannelPerCustomer(customers, acquiredVia, config) ==
    IF config.attributionMode = "acquired_via" /\ Len(acquiredVia) > 0
    THEN EdgeFold(<<>>, acquiredVia, 1)
    ELSE EdgeFold(FieldFold(<<>>, customers, 1), acquiredVia, 1)

customerChannelOf(customers, acquiredVia, config) ==
    IF config.attributionMode = "acquired_via" /\ Len(acquiredVia) > 0
    THEN EdgeFold(<<>>, acquiredVia, 1)
    ELSE LET byField == FieldFold(<<>>, customers, 1)
         IN  IF Len(byField) = 0 /\ Len(acquiredVia) > 0
             THEN EdgeFold(byField, acquiredVia, 1)
             ELSE byField

\* spendDaily.forEach, with the lookback cutoff taken from Date.now().
RECURSIVE DailyFold(_, _, _, _)
DailyFold(spendByChannel, spendDaily, i, cutoff) ==
    IF i > Len(spendDaily)
    THEN spendByChannel
    ELSE LET row == spendDaily[i]
         IN  DailyFold(IF Truthy(cutoff) /\ GetTime(row.date) < cutoff
                       THEN spendByChannel
                       ELSE MapSet(spendByChannel, row.channelId,
                                   OrElse(MapGet(spendByChannel, row.channelId), 0)
                                   + row.spend),
                       spendDaily, i + 1, cutoff)

\* channels.forEach: budgetSpend when defined.
RECURSIVE BudgetFold(_, _, _)
BudgetFold(spendByChannel, channels, i) ==
    IF i > Len(channels)
    THEN spendByChannel
    ELSE BudgetFold(IF channels[i].budgetSpend /= Undefined
                    THEN MapSet(spendByChannel, channels[i].channelId,
                                channels[i].budgetSpend)
                    ELSE spendByChannel,
                    channels, i + 1)

\* channels.forEach: every channel gets an entry, 0 when it has none.
RECURSIVE ZeroSpendFold(_, _, _)
ZeroSpendFold(spendByChannel, channels, i) ==
    IF i > Len(channels)
    THEN spendByChannel
    ELSE ZeroSpendFold(IF MapHas(spendByChannel, channels[i].channelId)
                       THEN spendByChannel
                       ELSE MapSet(spendByChannel, channels[i].channelId, 0),
                       channels, i + 1)

\* The budget filling in, channel by channel, where the daily rows give nothing.
spendByChannelBlended(channels, spendDaily, config, now) ==
    ZeroSpendFold(
        IF config.cacSpendSource = "daily" /\ Len(spendDaily) > 0
        THEN LET daily == DailyFold(<<>>, spendDaily, 1,
                                    IF Truthy(config.cacLookbackDays)
                                    THEN now - config.cacLookbackDays * DayMs
                                    ELSE Undefined)
                 budget == BudgetFold(<<>>, channels, 1)
             IN  daily \o SelectSeq(budget, LAMBDA e : ~MapHas(daily, e.key))
        ELSE BudgetFold(<<>>, channels, 1),
        channels, 1)

spendByChannelOf(channels, spendDaily, config, now) ==
    ZeroSpendFold(
        IF config.cacSpendSource = "daily" /\ Len(spendDaily) > 0
        THEN DailyFold(<<>>, spendDaily, 1,
                       IF Truthy(config.cacLookbackDays)
                       THEN now - config.cacLookbackDays * DayMs
                       ELSE Undefined)
        ELSE BudgetFold(<<>>, channels, 1),
        channels, 1)

ZeroChannelAggregate == [customers |-> 0, high |-> 0, totalLtv |-> 0]

\* customerMetrics.forEach without reading the channel's entry: every customer
\* starts the channel's entry anew.
RECURSIVE AggregateFoldAnew(_, _, _, _)
AggregateFoldAnew(aggregates, customerMetrics, i, customerChannel) ==
    IF i > Len(customerMetrics)
    THEN aggregates
    ELSE LET metric == customerMetrics[i]
             channelId == ChannelGet(customerChannel, metric.customerId)
         IN  AggregateFoldAnew(
                 IF channelId = NoChannel
                 THEN aggregates
                 ELSE MapSet(aggregates, channelId,
                             [customers |-> 1,
                              high |-> IF metric.ltvSegment = "HIGH" THEN 1 ELSE 0,
                              totalLtv |-> metric.ltv]),
                 customerMetrics, i + 1, customerChannel)

\* customerMetrics.forEach: one count per metric row with a mapped channel.
RECURSIVE AggregateFold(_, _, _, _)
AggregateFold(aggregates, customerMetrics, i, customerChannel) ==
    IF i > Len(customerMetrics)
    THEN aggregates
    ELSE LET metric == customerMetrics[i]
             channelId == ChannelGet(customerChannel, metric.customerId)
             entry == IF MapHas(aggregates, channelId)
                      THEN aggregates[MapIndex(aggregates, channelId)].value
                      ELSE ZeroChannelAggregate
         IN  AggregateFold(
                 IF channelId = NoChannel
                 THEN aggregates
                 ELSE MapSet(aggregates, channelId,
                             [customers |-> entry.customers + 1,
                              high |-> entry.high
                                       + (IF metric.ltvSegment = "HIGH" THEN 1 ELSE 0),
                              totalLtv |-> entry.totalLtv + metric.ltv]),
                 customerMetrics, i + 1, customerChannel)

aggregatesOf(customerMetrics, customerChannel) ==
    AggregateFold(<<>>, customerMetrics, 1, customerChannel)

\* x / y as an exact fraction; the code's guard gives 0 when y is 0.
Ratio(x, y) == IF y /= 0 THEN [num |-> x, den |-> y] ELSE [num |-> 0, den |-> 1]

channelRows(aggregates, spendByChannel) ==
    [i \in 1..Len(aggregates) |->
        LET entry == aggregates[i].value
            spend == OrElse(MapGet(spendByChannel, aggregates[i].key), 0)
        IN  [channelId |-> aggregates[i].key,
             cac |-> Ratio(spend, entry.customers),
             spend |-> spend,
             acquiredCustomers |-> entry.customers,
             highLtvCustomers |-> entry.high,
             highLtvShare |-> Ratio(entry.high, entry.customers),
             netValue |-> Ratio(entry.totalLtv - spend, entry.customers),
             avgLtv |-> Ratio(entry.totalLtv, entry.customers)]]

computeChannelMetrics(customerMetrics, customers, channels, acquiredVia, spendDaily, config, now) ==
    channelRows(aggregatesOf(customerMetrics, customerChannelOf(customers, acquiredVia, config)),
                spendByChannelOf(channels, spendDaily, config, now))

\* ============================================================ spendPlan.ts
\* Amounts and ratios are exact fractions [num, den] with den > 0.
Abs(x) == IF x < 0 THEN -x ELSE x

RECURSIVE GCD(_, _)
GCD(a, b) == IF b = 0 THEN a ELSE GCD(b, a % b)

\* num / den in lowest terms.
Q(num, den) ==
    LET g == GCD(Abs(num), den)
    IN  [num |-> num \div g, den |-> den \div g]

Zero == Q(0, 1)
QInt(n) == Q(n, 1)
QAdd(a, b) == Q(a.num * b.den + b.num * a.den, a.den * b.den)
QSub(a, b) == Q(a.num * b.den - b.num * a.den, a.den * b.den)
QMul(a, b) == Q(a.num * b.num, a.den * b.den)
QLess(a, b) == a.num * b.den < b.num * a.den
QLeq(a, b) == a.num * b.den <= b.num * a.den
QEq(a, b) == a.num * b.den = b.num * a.den
QMin(a, b) == IF QLess(b, a) THEN b ELSE a
QMax(a, b) == IF QLess(a, b) THEN b ELSE a
\* a / k for an integer k > 0
QOver(a, k) == Q(a.num, a.den * k)
\* a / b for b > 0
QDiv(a, b) == Q(a.num * b.den, a.den * b.num)

Strategies == {"high_efficiency", "maximize_revenue", "stability"}

SHIFT_BY_STRATEGY(strategy) ==
    CASE strategy = "high_efficiency" -> Q(12, 100)
      [] strategy = "maximize_revenue" -> Q(18, 100)
      [] strategy = "stability" -> Q(6, 100)

HOLD_RATIONALE(strategy) == [kind |-> "hold", strategy |-> strategy, because |-> "hold"]

ratioOf(channel) ==
    IF QLeq(channel.cac, Zero) THEN Zero
    ELSE IF QLeq(channel.avgLtv, Zero) THEN Zero
    ELSE QDiv(channel.avgLtv, channel.cac)

\* Array.prototype.sort with a comparator (stable): Before(a, b) iff the
\* comparator is negative for (a, b).
SortBy(s, Before(_, _)) ==
    LET rank(i) == Cardinality({j \in 1..Len(s) :
                       \/ Before(s[j], s[i])
                       \/ ~Before(s[i], s[j]) /\ j < i})
    IN  [k \in 1..Len(s) |-> s[CHOOSE i \in 1..Len(s) : rank(i) = k - 1]]

\* slice(0, end)
Slice(s, end) == SubSeq(s, 1, IF end < Len(s) THEN end ELSE Len(s))

\* The first row of every channelId.
uniqueTargets(targets) ==
    LET kept == {i \in 1..Len(targets) :
                    \A j \in 1..(i - 1) : targets[j].channelId /= targets[i].channelId}
        place(k) == CHOOSE i \in kept : Cardinality({j \in kept : j < i}) = k - 1
    IN  [k \in 1..Cardinality(kept) |-> targets[place(k)]]

byHighShare(metrics) ==
    SortBy(metrics, LAMBDA a, b :
        \/ QLess(b.highLtvShare, a.highLtvShare)
        \/ QEq(b.highLtvShare, a.highLtvShare) /\ QLess(ratioOf(b), ratioOf(a)))

byRatioAsc(metrics) == SortBy(metrics, LAMBDA a, b : QLess(ratioOf(a), ratioOf(b)))

\* avgLtv * acquiredCustomers
ValueOf(channel) == QMul(channel.avgLtv, QInt(channel.acquiredCustomers))

byValueDesc(metrics) ==
    SortBy(metrics, LAMBDA a, b :
        \/ QLess(ValueOf(b), ValueOf(a))
        \/ QEq(ValueOf(b), ValueOf(a)) /\ QLess(b.netValue, a.netValue))

\* x || 1 for a length
OrOne(x) == IF x = 0 THEN 1 ELSE x

pickMaximizeRevenue(metrics) ==
    LET positive == SelectSeq(byValueDesc(metrics), LAMBDA c : QLess(Zero, c.netValue))
        increaseTargets ==
            uniqueTargets(Slice(IF Len(positive) > 0 THEN positive ELSE byValueDesc(metrics),
                                Max(3, (Len(metrics) + 2) \div 3)))
        decreaseCandidates ==
            SelectSeq(byRatioAsc(metrics),
                      LAMBDA c : QLeq(c.netValue, Zero) \/ QLess(ratioOf(c), Q(14, 10)))
    IN  [increaseTargets |-> increaseTargets,
         decreaseTargets |->
             uniqueTargets(Slice(IF Len(decreaseCandidates) > 0 THEN decreaseCandidates
                                 ELSE byRatioAsc(metrics),
                                 Max(3, OrOne(Len(increaseTargets)))))]

pickStability(metrics) ==
    LET inBand == uniqueTargets(Slice(
                      SelectSeq(metrics, LAMBDA c : /\ QLeq(QInt(2), ratioOf(c))
                                                    /\ QLeq(ratioOf(c), Q(35, 10))),
                      4))
        increaseTargets ==
            IF Len(inBand) > 0 THEN inBand
            ELSE uniqueTargets(Slice(byHighShare(metrics), 2))
        lowRatio == uniqueTargets(Slice(
                        SelectSeq(byRatioAsc(metrics),
                                  LAMBDA c : QLess(ratioOf(c), Q(12, 10))),
                        Max(2, OrOne(Len(increaseTargets)))))
    IN  [increaseTargets |-> increaseTargets,
         decreaseTargets |->
             IF Len(lowRatio) > 0 THEN lowRatio
             ELSE uniqueTargets(Slice(byRatioAsc(metrics), 2))]

\* Every channel that passes a test becomes a target: no slice.
pickHighEfficiencyUncapped(metrics) ==
    LET efficient == uniqueTargets(
                         SelectSeq(byHighShare(metrics),
                                   LAMBDA c : /\ QLeq(Q(3, 10), c.highLtvShare)
                                              /\ QLeq(QInt(2), ratioOf(c))))
        increaseTargets ==
            IF Len(efficient) > 0 THEN efficient
            ELSE uniqueTargets(Slice(byHighShare(metrics), 3))
        poor == uniqueTargets(
                    SelectSeq(byRatioAsc(metrics), LAMBDA c : QLess(ratioOf(c), Q(12, 10)))
                    \o SelectSeq(byHighShare(metrics),
                                 LAMBDA c : QLess(c.highLtvShare, Q(15, 100))))
    IN  [increaseTargets |-> increaseTargets,
         decreaseTargets |->
             IF Len(poor) > 0 THEN poor
             ELSE uniqueTargets(Slice(byRatioAsc(metrics), 2))]

pickHighEfficiency(metrics) ==
    LET efficient == uniqueTargets(Slice(
                         SelectSeq(byHighShare(metrics),
                                   LAMBDA c : /\ QLeq(Q(3, 10), c.highLtvShare)
                                              /\ QLeq(QInt(2), ratioOf(c))),
                         4))
        increaseTargets ==
            IF Len(efficient) > 0 THEN efficient
            ELSE uniqueTargets(Slice(byHighShare(metrics), 3))
        poor == uniqueTargets(Slice(
                    SelectSeq(byRatioAsc(metrics), LAMBDA c : QLess(ratioOf(c), Q(12, 10)))
                    \o SelectSeq(byHighShare(metrics),
                                 LAMBDA c : QLess(c.highLtvShare, Q(15, 100))),
                    Max(3, OrOne(Len(increaseTargets)))))
    IN  [increaseTargets |-> increaseTargets,
         decreaseTargets |->
             IF Len(poor) > 0 THEN poor
             ELSE uniqueTargets(Slice(byRatioAsc(metrics), 2))]

pickTargets(strategy, metrics) ==
    IF strategy = "maximize_revenue" THEN pickMaximizeRevenue(metrics)
    ELSE IF strategy = "stability" THEN pickStability(metrics)
    ELSE pickHighEfficiency(metrics)

\* itemMap.get(channelId): the Map built from the items keeps the last item of a key.
ItemIndex(items, channelId) ==
    CHOOSE i \in 1..Len(items) :
        /\ items[i].channelId = channelId
        /\ \A j \in (i + 1)..Len(items) : items[j].channelId /= channelId

decreaseRationale(strategy, channel) ==
    [kind |-> "decrease", strategy |-> strategy,
     because |-> IF QLeq(ratioOf(channel), Zero) THEN "cac missing"
                 ELSE IF QLess(channel.highLtvShare, Q(15, 100)) THEN "low high share"
                 ELSE "low ratio"]

increaseRationale(strategy, channel) ==
    [kind |-> "increase", strategy |-> strategy,
     because |-> IF strategy = "maximize_revenue" THEN "net value"
                 ELSE IF strategy = "stability" THEN "near target"
                 ELSE "high share"]

\* A forEach turn that gives every target the same part of what is left.
AdjustStepFixedShare(acc, targets, index, direction, strategy) ==
    LET channel == targets[index]
        at == ItemIndex(acc.items, channel.channelId)
        item == acc.items[at]
        share == QOver(acc.remaining, Len(targets))
        reducible == QMin(share, item.proposedSpend)
    IN  IF QLeq(acc.remaining, Zero) THEN acc
        ELSE IF direction = "increase"
        THEN [items |-> [acc.items EXCEPT ![at] =
                            [item EXCEPT !.proposedSpend = QAdd(item.currentSpend, share),
                                         !.delta = share,
                                         !.rationale = increaseRationale(strategy, channel)]],
              remaining |-> QSub(acc.remaining, share),
              applied |-> QAdd(acc.applied, share),
              touched |-> acc.touched \cup {channel.channelId}]
        ELSE IF QLeq(reducible, Zero) THEN acc
        ELSE LET proposedSpend == QMax(Zero, QSub(item.proposedSpend, reducible))
             IN  [items |-> [acc.items EXCEPT ![at] =
                                [item EXCEPT !.proposedSpend = proposedSpend,
                                             !.delta = QSub(proposedSpend, item.currentSpend),
                                             !.rationale = decreaseRationale(strategy, channel)]],
                  remaining |-> QSub(acc.remaining, reducible),
                  applied |-> QAdd(acc.applied, reducible),
                  touched |-> acc.touched \cup {channel.channelId}]

\* One turn of targets.forEach in applyAdjustments; acc holds the items, remaining,
\* applied and touched.
AdjustStep(acc, targets, index, direction, strategy) ==
    LET channel == targets[index]
        at == ItemIndex(acc.items, channel.channelId)
        item == acc.items[at]
        share == QOver(acc.remaining, Len(targets) - (index - 1))
        reducible == QMin(share, item.proposedSpend)
    IN  IF QLeq(acc.remaining, Zero) THEN acc
        ELSE IF direction = "increase"
        THEN [items |-> [acc.items EXCEPT ![at] =
                            [item EXCEPT !.proposedSpend = QAdd(item.currentSpend, share),
                                         !.delta = QSub(QAdd(item.currentSpend, share),
                                                        item.currentSpend),
                                         !.rationale = increaseRationale(strategy, channel)]],
              remaining |-> QSub(acc.remaining, share),
              applied |-> QAdd(acc.applied, share),
              touched |-> acc.touched \cup {channel.channelId}]
        ELSE IF QLeq(reducible, Zero) THEN acc
        ELSE LET proposedSpend == QMax(Zero, QSub(item.proposedSpend, reducible))
             IN  [items |-> [acc.items EXCEPT ![at] =
                                [item EXCEPT !.proposedSpend = proposedSpend,
                                             !.delta = QSub(proposedSpend, item.currentSpend),
                                             !.rationale = decreaseRationale(strategy, channel)]],
                  remaining |-> QSub(acc.remaining, reducible),
                  applied |-> QAdd(acc.applied, reducible),
                  touched |-> acc.touched \cup {channel.channelId}]

RECURSIVE AdjustFold(_, _, _, _, _)
AdjustFold(acc, targets, index, direction, strategy) ==
    IF index > Len(targets) THEN acc
    ELSE AdjustFold(AdjustStep(acc, targets, index, direction, strategy),
                    targets, index + 1, direction, strategy)

\* applyAdjustments: the items, the touched set and the returned amount.
applyAdjustments(items, targets, total, direction, strategy, touched) ==
    IF Len(targets) = 0 \/ QLeq(total, Zero)
    THEN [items |-> items, remaining |-> total, applied |-> Zero, touched |-> touched]
    ELSE AdjustFold([items |-> items, remaining |-> total, applied |-> Zero,
                     touched |-> touched],
                    targets, 1, direction, strategy)

RECURSIVE totalSpendOf(_, _)
totalSpendOf(metrics, i) ==
    IF i > Len(metrics) THEN Zero ELSE QAdd(QInt(metrics[i].spend), totalSpendOf(metrics, i + 1))

\* Items whose proposed spend starts from nothing.
baseItemsAtZero(metrics, strategy) ==
    [i \in 1..Len(metrics) |->
        [channelId |-> metrics[i].channelId,
         currentSpend |-> QInt(metrics[i].spend),
         proposedSpend |-> Zero,
         delta |-> Zero,
         rationale |-> HOLD_RATIONALE(strategy)]]

baseItemsOf(metrics, strategy) ==
    [i \in 1..Len(metrics) |->
        [channelId |-> metrics[i].channelId,
         currentSpend |-> QInt(metrics[i].spend),
         proposedSpend |-> QInt(metrics[i].spend),
         delta |-> Zero,
         rationale |-> HOLD_RATIONALE(strategy)]]

\* The decrease targets as picked, increase targets among them.
decreaseAll(decreaseTargets, increaseTargets) == decreaseTargets

\* decreaseTargets.filter(target => !increaseTargets.find(...))
decreaseOnly(decreaseTargets, increaseTargets) ==
    SelectSeq(decreaseTargets,
              LAMBDA t : \A i \in 1..Len(increaseTargets) :
                            increaseTargets[i].channelId /= t.channelId)

\* ============================================================ the store
VARIABLES
    raw,          \* the six raw tables of the project database
    modelConfig,  \* db.modelConfig.get('active')
    derived,      \* customerMetrics, segmentMetrics, channelMetrics as committed
    jobs,         \* db.jobs: the compute job records, by job
    auditLog,     \* db.auditLog
    txOwner,      \* the job whose rw transaction on the derived tables is open (0: none)
    txBuf,        \* that transaction's uncommitted view of the derived tables
    pc,           \* each job's position in handleRecompute / handleSubmit / the worker
    file,         \* the file an import-started job imports
    cfg,          \* runComputePipeline's local config
    snap,         \* its locals customers .. spendDaily
    out,          \* its locals churnDates .. segmentMetrics
    msgs,         \* the messages each worker has posted
    before,       \* history: the derived tables when the job's worker was started
    clock,        \* Date.now()
    plan,         \* generateRecommendations: its arguments, locals and result
    clearing,     \* handleClearData: the clear() calls not yet done
    imported,     \* the project importProjectBundle has created
    tabs          \* the ProjectShell of every tab on the project

vars == <<raw, modelConfig, derived, jobs, auditLog, txOwner, txBuf, pc, file, cfg, snap,
          out, msgs, before, clock, plan, clearing, imported, tabs>>

JobIds == 1..MaxJobs

EmptyRaw ==
    [customers |-> <<>>, transactions |-> <<>>, events |-> <<>>, channels |-> <<>>,
     acquiredVia |-> <<>>, channelSpendDaily |-> <<>>]

EmptyDerived == [customerMetrics |-> <<>>, segmentMetrics |-> <<>>, channelMetrics |-> <<>>]

NoJob == [status |-> "NONE", phase |-> ""]

NoOut ==
    [churnDates |-> <<>>, totals |-> <<>>, segments |-> <<>>, customerMetrics |-> <<>>,
     customerChannel |-> <<>>, spendByChannel |-> <<>>,
     channelMetrics |-> <<>>, segmentMetrics |-> <<>>]

\* db.modelConfig.get('active') of a store without an active config
NoConfig == [key |-> "missing"]

NoFile == [dataset |-> "none", rows |-> <<>>]

\* A tab that has not opened the project; inbox counts the 'writer-active'
\* messages delivered to its BroadcastChannel and not yet handled.
NoTab == [status |-> "unopened", hasWriteLock |-> FALSE, lock |-> "none", inbox |-> 0]

TabIds == 1..MaxTabs

NoTabs == [t \in TabIds |-> NoTab]

\* No bundle has been imported; source is what the exported project held.
NoImport ==
    [exists |-> FALSE, raw |-> EmptyRaw, derived |-> EmptyDerived, modelConfig |-> NoConfig,
     source |-> [raw |-> EmptyRaw, modelConfig |-> NoConfig]]

\* generateRecommendations has not been called.
NoPlan ==
    [stage |-> "none", strategy |-> "high_efficiency", metrics |-> <<>>, items |-> <<>>,
     increaseTargets |-> <<>>, decreaseTargets |-> <<>>, actualDecrease |-> Zero,
     touched |-> {}]

\* The place of a customers row's primary key in IndexedDB key order.
KeyRank(k) == CHOOSE i \in 1..Len(CustomerOrder) : CustomerOrder[i] = k

\* Table.put of one row: a row with the same primary key is replaced, a new one
\* takes its place in key order.
PutRow(table, row) ==
    IF \E i \in 1..Len(table) : table[i].pk = row.pk
    THEN [i \in 1..Len(table) |-> IF table[i].pk = row.pk THEN row ELSE table[i]]
    ELSE LET below == Cardinality({i \in 1..Len(table) : KeyRank(table[i].pk) < KeyRank(row.pk)})
         IN  SubSeq(table, 1, below) \o <<row>> \o SubSeq(table, below + 1, Len(table))

RECURSIVE BulkPut(_, _, _)
BulkPut(table, rows, i) ==
    IF i > Len(rows) THEN table ELSE BulkPut(PutRow(table, rows[i]), rows, i + 1)

\* The CSV file an import loads (after mapRowToRecord): two customers.
ImportFiles ==
    {[dataset |-> "customers",
      rows |-> <<[pk |-> "c2", customerId |-> "c2", acquisitionDate |-> Undefined,
                  channelSourceId |-> "brand"],
                 [pk |-> "c1", customerId |-> "c1", acquisitionDate |-> 0,
                  channelSourceId |-> "paid"]>>]}

Init ==
    /\ raw = EmptyRaw
    /\ modelConfig = defaultModelConfig
    /\ derived = EmptyDerived
    /\ jobs = [j \in JobIds |-> NoJob]
    /\ auditLog = <<>>
    /\ txOwner = 0
    /\ txBuf = EmptyDerived
    /\ pc = [j \in JobIds |-> "idle"]
    /\ file = [j \in JobIds |-> NoFile]
    /\ cfg = [j \in JobIds |-> defaultModelConfig]
    /\ snap = [j \in JobIds |-> EmptyRaw]
    /\ out = [j \in JobIds |-> NoOut]
    /\ msgs = [j \in JobIds |-> <<>>]
    /\ before = [j \in JobIds |-> EmptyDerived]
    /\ clock = GetTime(MaxDay)
    /\ plan = NoPlan
    /\ clearing = {}
    /\ imported = NoImport
    /\ tabs = NoTabs

\* db.jobs.update(jobId, patch): changes the record when it exists.
JobsUpdate(j, status, phase) ==
    IF jobs[j].status = "NONE"
    THEN jobs
    ELSE [jobs EXCEPT ![j] = [status |-> status, phase |-> phase]]

\* ------------------------------------------------- starting a recompute
\* SegmentDashboard.handleRecompute: the queued job record, then runComputeJob
\* starts a worker and posts the payload.  Nothing guards the button.
HandleRecompute(j) ==
    /\ pc[j] = "idle"
    /\ jobs' = [jobs EXCEPT ![j] = [status |-> "RUNNING", phase |-> "queued"]]
    /\ pc' = [pc EXCEPT ![j] = "start"]
    /\ before' = [before EXCEPT ![j] = derived]
    /\ UNCHANGED <<tabs, imported, clearing, plan, raw, modelConfig, derived, auditLog, txOwner, txBuf, file, cfg, snap,
                   out, msgs, clock>>

\* ImportWizardScreen.handleSubmit up to runImportJob: the import worker starts.
HandleSubmit(j, f) ==
    /\ pc[j] = "idle"
    /\ file' = [file EXCEPT ![j] = f]
    /\ pc' = [pc EXCEPT ![j] = "import"]
    /\ UNCHANGED <<tabs, imported, clearing, plan, raw, modelConfig, derived, jobs, auditLog, txOwner, txBuf, cfg, snap,
                   out, msgs, before, clock>>

\* runImport: the chunk's rw transaction on the target table (bulkPut).
ImportChunk(j) ==
    /\ pc[j] = "import"
    /\ raw' = [raw EXCEPT ![file[j].dataset] = BulkPut(@, file[j].rows, 1)]
    /\ pc' = [pc EXCEPT ![j] = "imported"]
    /\ UNCHANGED <<tabs, imported, clearing, plan, modelConfig, derived, jobs, auditLog, txOwner, txBuf, file, cfg, snap,
                   out, msgs, before, clock>>

\* mapDatasetToAudit
AuditTypeOf(dataset) ==
    CASE dataset = "customers" -> "IMPORT_CUSTOMERS"
      [] dataset = "transactions" -> "IMPORT_TRANSACTIONS"
      [] dataset = "channels" -> "IMPORT_CHANNELS"
      [] dataset = "events" -> "IMPORT_EVENTS"
      [] dataset = "acquiredVia" -> "IMPORT_ACQUIRED_VIA"
      [] dataset = "channelSpendDaily" -> "IMPORT_SPEND"
      [] OTHER -> "IMPORT_CUSTOMERS"

\* runImport's audit entry (the import job's own record is not modelled: jobs holds
\* the compute job records).
ImportAudit(j) ==
    /\ pc[j] = "imported"
    /\ auditLog' = Append(auditLog, [type |-> AuditTypeOf(file[j].dataset),
                                     payload |-> [processed |-> Len(file[j].rows)]])
    /\ pc' = [pc EXCEPT ![j] = "importDone"]
    /\ UNCHANGED <<tabs, imported, clearing, plan, raw, modelConfig, derived, jobs, txOwner, txBuf, file, cfg, snap, out,
                   msgs, before, clock>>

\* The import worker's 'completed' message resolves runImportJob and handleSubmit
\* goes on: the queued compute job record, then runComputeJob.
SubmitRecompute(j) ==
    /\ pc[j] = "importDone"
    /\ jobs' = [jobs EXCEPT ![j] = [status |-> "RUNNING", phase |-> "queued"]]
    /\ pc' = [pc EXCEPT ![j] = "start"]
    /\ file' = [file EXCEPT ![j] = NoFile]
    /\ before' = [before EXCEPT ![j] = derived]
    /\ UNCHANGED <<tabs, imported, clearing, plan, raw, modelConfig, derived, auditLog, txOwner, txBuf, cfg, snap, out,
                   msgs, clock>>

\* ---------------------------------------------------- runComputePipeline
\* db.modelConfig.get('active') ?? defaultModelConfig()
GetConfig(j) ==
    /\ pc[j] = "start"
    /\ cfg' = [cfg EXCEPT ![j] = IF modelConfig = NoConfig THEN defaultModelConfig
                                 ELSE modelConfig]
    /\ pc' = [pc EXCEPT ![j] = "putRunning"]
    /\ UNCHANGED <<tabs, imported, clearing, plan, raw, modelConfig, derived, jobs, auditLog, txOwner, txBuf, file, snap,
                   out, msgs, before, clock>>

\* db.jobs.put({status: 'RUNNING', phase: 'loading data'})
PutRunning(j) ==
    /\ pc[j] = "putRunning"
    /\ jobs' = [jobs EXCEPT ![j] = [status |-> "RUNNING", phase |-> "loading data"]]
    /\ pc' = [pc EXCEPT ![j] = "load"]
    /\ UNCHANGED <<tabs, imported, clearing, plan, raw, modelConfig, derived, auditLog, txOwner, txBuf, file, cfg, snap,
                   out, msgs, before, clock>>

\* The six toArray() reads (taken here as one snapshot of the raw tables).
LoadData(j) ==
    /\ pc[j] = "load"
    /\ snap' = [snap EXCEPT ![j] = raw]
    /\ pc' = [pc EXCEPT ![j] = "progress1"]
    /\ UNCHANGED <<tabs, imported, clearing, plan, raw, modelConfig, derived, jobs, auditLog, txOwner, txBuf, file, cfg,
                   out, msgs, before, clock>>

\* noteProgress: the job record's phase, then the worker's 'progress' message.
NoteProgress(j, phase) ==
    /\ jobs' = JobsUpdate(j, jobs[j].status, phase)
    /\ msgs' = [msgs EXCEPT ![j] = Append(@, phase)]

\* Lines 49-52: the customer metrics.
CustomerOut(j) ==
    LET churnDates == buildChurnMap(snap[j].events, cfg[j])
        totals == computeCustomerTotals(snap[j].customers, snap[j].transactions,
                                        churnDates, cfg[j])
        segments == assignSegments(totals, cfg[j])
    IN  [out[j] EXCEPT !.churnDates = churnDates,
                       !.totals = totals,
                       !.segments = segments,
                       !.customerMetrics = buildCustomerMetrics(totals, segments)]

\* Lines 56-64: the channel and segment metrics.
ChannelOut(j) ==
    [out[j] EXCEPT !.customerChannel =
                       customerChannelOf(snap[j].customers, snap[j].acquiredVia, cfg[j]),
                   !.spendByChannel =
                       spendByChannelOf(snap[j].channels, snap[j].channelSpendDaily,
                                        cfg[j], clock),
                   !.channelMetrics =
                       computeChannelMetrics(out[j].customerMetrics, snap[j].customers,
                                             snap[j].channels, snap[j].acquiredVia,
                                             snap[j].channelSpendDaily, cfg[j], clock),
                   !.segmentMetrics = summarizeSegments(out[j].customerMetrics)]

\* noteProgress('computing customer metrics') and the computation up to the next await.
Progress1(j) ==
    /\ pc[j] = "progress1"
    /\ NoteProgress(j, "computing customer metrics")
    /\ out' = [out EXCEPT ![j] = CustomerOut(j)]
    /\ pc' = [pc EXCEPT ![j] = "progress2"]
    /\ UNCHANGED <<tabs, imported, clearing, plan, raw, modelConfig, derived, auditLog, txOwner, txBuf, file, cfg, snap,
                   before, clock>>

\* noteProgress('computing channel metrics') and the computation up to the next await.
Progress2(j) ==
    /\ pc[j] = "progress2"
    /\ NoteProgress(j, "computing channel metrics")
    /\ out' = [out EXCEPT ![j] = ChannelOut(j)]
    /\ pc' = [pc EXCEPT ![j] = "progress3"]
    /\ UNCHANGED <<tabs, imported, clearing, plan, raw, modelConfig, derived, auditLog, txOwner, txBuf, file, cfg, snap,
                   before, clock>>

\* noteProgress('writing materialized tables')
Progress3(j) ==
    /\ pc[j] = "progress3"
    /\ NoteProgress(j, "writing materialized tables")
    /\ pc' = [pc EXCEPT ![j] = "txBegin"]
    /\ UNCHANGED <<tabs, imported, clearing, plan, raw, modelConfig, derived, auditLog, txOwner, txBuf, file, cfg, snap,
                   out, before, clock>>

\* --------------------------------- the transaction on the derived tables
\* Writes of an open transaction shown to every reader at once (no transaction
\* around the six calls).
WriteThrough(committed, buffer) == buffer

\* db.transaction('rw', customerMetrics, segmentMetrics, channelMetrics, ...): what
\* a reader sees after a write inside the open transaction.  IndexedDB shows the
\* transaction's writes to no one before it commits.
StoreAfterWrite(committed, buffer) == committed

\* The tables one run of the pipeline writes for given raw tables and config.
PipelineTables(tables, config, now) ==
    LET totals == computeCustomerTotals(tables.customers, tables.transactions,
                                        buildChurnMap(tables.events, config), config)
        customerMetrics == buildCustomerMetrics(totals, assignSegments(totals, config))
    IN  [customerMetrics |-> customerMetrics,
         segmentMetrics |-> summarizeSegments(customerMetrics),
         channelMetrics |-> computeChannelMetrics(customerMetrics, tables.customers,
                                                  tables.channels, tables.acquiredVia,
                                                  tables.channelSpendDaily, config, now)]

\* The Dexie calls of the transaction body, in order.
TxOps ==
    <<"clearCustomerMetrics", "clearSegmentMetrics", "clearChannelMetrics",
      "addCustomerMetrics", "addSegmentMetrics", "addChannelMetrics">>

TxOpIndex(op) == CHOOSE i \in 1..Len(TxOps) : TxOps[i] = op

AfterTxOp(op) == IF TxOpIndex(op) < Len(TxOps) THEN TxOps[TxOpIndex(op) + 1] ELSE "commit"

\* table.clear() and, for a non-empty array, table.bulkAdd(rows) on a cleared table.
ApplyTxOp(op, buffer, results) ==
    CASE op = "clearCustomerMetrics" -> [buffer EXCEPT !.customerMetrics = <<>>]
      [] op = "clearSegmentMetrics" -> [buffer EXCEPT !.segmentMetrics = <<>>]
      [] op = "clearChannelMetrics" -> [buffer EXCEPT !.channelMetrics = <<>>]
      [] op = "addCustomerMetrics" ->
            [buffer EXCEPT !.customerMetrics = @ \o results.customerMetrics]
      [] op = "addSegmentMetrics" ->
            [buffer EXCEPT !.segmentMetrics = @ \o results.segmentMetrics]
      [] op = "addChannelMetrics" ->
            [buffer EXCEPT !.channelMetrics = @ \o results.channelMetrics]

\* The transaction starts once no other rw transaction holds the three stores.
TxBegin(j) ==
    /\ pc[j] = "txBegin"
    /\ txOwner = 0
    /\ txOwner' = j
    /\ txBuf' = derived
    /\ pc' = [pc EXCEPT ![j] = TxOps[1]]
    /\ UNCHANGED <<tabs, imported, clearing, plan, raw, modelConfig, derived, jobs, auditLog, file, cfg, snap, out, msgs,
                   before, clock>>

TxWrite(j) ==
    /\ txOwner = j
    /\ \E i \in 1..Len(TxOps) : pc[j] = TxOps[i]
    /\ txBuf' = ApplyTxOp(pc[j], txBuf, out[j])
    /\ derived' = StoreAfterWrite(derived, txBuf')
    /\ pc' = [pc EXCEPT ![j] = AfterTxOp(pc[j])]
    /\ UNCHANGED <<tabs, imported, clearing, plan, raw, modelConfig, jobs, auditLog, txOwner, file, cfg, snap, out, msgs,
                   before, clock>>

TxCommit(j) ==
    /\ txOwner = j
    /\ pc[j] = "commit"
    /\ derived' = txBuf
    /\ txOwner' = 0
    /\ txBuf' = EmptyDerived
    /\ pc' = [pc EXCEPT ![j] = "completeJob"]
    /\ UNCHANGED <<tabs, imported, clearing, plan, raw, modelConfig, jobs, auditLog, file, cfg, snap, out, msgs, before,
                   clock>>

\* The pipeline goes on to the audit entry without the update of the job record.
CompleteJobSkipped(j) ==
    /\ pc[j] = "completeJob"
    /\ pc' = [pc EXCEPT ![j] = "audit"]
    /\ UNCHANGED <<tabs, imported, clearing, plan, raw, modelConfig, derived, jobs, auditLog, txOwner, txBuf, file, cfg,
                   snap, out, msgs, before, clock>>

\* db.jobs.update(jobId, {status: 'COMPLETED', phase: 'done'})
CompleteJob(j) ==
    /\ pc[j] = "completeJob"
    /\ jobs' = JobsUpdate(j, "COMPLETED", "done")
    /\ pc' = [pc EXCEPT ![j] = "audit"]
    /\ UNCHANGED <<tabs, imported, clearing, plan, raw, modelConfig, derived, auditLog, txOwner, txBuf, file, cfg, snap,
                   out, msgs, before, clock>>

RecomputeEntry(results) ==
    [type |-> "RECOMPUTE",
     payload |-> [customers |-> Len(results.customerMetrics),
                  channels |-> Len(results.channelMetrics)]]

\* db.auditLog.add, the pipeline returns and the worker posts 'completed'.
AuditAdd(j) ==
    /\ pc[j] = "audit"
    /\ auditLog' = Append(auditLog, RecomputeEntry(out[j]))
    /\ msgs' = [msgs EXCEPT ![j] = Append(@, "completed")]
    /\ pc' = [pc EXCEPT ![j] = "done"]
    /\ cfg' = [cfg EXCEPT ![j] = defaultModelConfig]
    /\ snap' = [snap EXCEPT ![j] = EmptyRaw]
    /\ before' = [before EXCEPT ![j] = EmptyDerived]
    /\ UNCHANGED <<tabs, imported, clearing, plan, raw, modelConfig, derived, jobs, txOwner, txBuf, file, out, clock>>

\* The positions at which the pipeline waits for a database request.
DbWaits ==
    {"start", "putRunning", "load", "progress1", "progress2", "progress3", "txBegin",
     "commit", "completeJob", "audit"} \cup {TxOps[i] : i \in 1..Len(TxOps)}

\* The awaited request rejects: runComputePipeline throws, the worker's catch posts
\* 'error' (and nothing else), an open transaction is aborted.  The pipeline's
\* locals are gone when it has thrown or returned (out is kept after a return: it is
\* what the run wrote and returned).
Fail(j) ==
    /\ pc[j] \in DbWaits
    /\ msgs' = [msgs EXCEPT ![j] = Append(@, "error")]
    /\ txOwner' = IF txOwner = j THEN 0 ELSE txOwner
    /\ txBuf' = IF txOwner = j THEN EmptyDerived ELSE txBuf
    /\ pc' = [pc EXCEPT ![j] = "failed"]
    /\ cfg' = [cfg EXCEPT ![j] = defaultModelConfig]
    /\ snap' = [snap EXCEPT ![j] = EmptyRaw]
    /\ out' = [out EXCEPT ![j] = NoOut]
    /\ UNCHANGED <<tabs, imported, clearing, plan, raw, modelConfig, derived, jobs, auditLog, file, before, clock>>

\* ------------------------------------- the other operations of the application
MaxAudit == 1

\* A settings save that also drops the derived tables.
SaveSettingsResetting(config) ==
    /\ Len(auditLog) < MaxAudit
    /\ modelConfig' = IF modelConfig = NoConfig THEN modelConfig ELSE config
    /\ derived' = EmptyDerived
    /\ auditLog' = Append(auditLog, [type |-> "SETTINGS_CHANGE",
                                     payload |-> [processed |-> 0]])
    /\ UNCHANGED <<tabs, raw, jobs, txOwner, txBuf, pc, file, cfg, snap, out, msgs, before,
                   clock, plan, clearing, imported>>

\* SettingsScreen.handleSave: updateConfig (modelConfig.update('active', patch), no
\* change without an active record) and the SETTINGS_CHANGE entry.
SaveSettings(config) ==
    /\ Len(auditLog) < MaxAudit
    /\ modelConfig' = IF modelConfig = NoConfig THEN modelConfig ELSE config
    /\ auditLog' = Append(auditLog, [type |-> "SETTINGS_CHANGE",
                                     payload |-> [processed |-> 0]])
    /\ UNCHANGED <<tabs, raw, derived, jobs, txOwner, txBuf, pc, file, cfg, snap, out, msgs, before,
                   clock, plan, clearing, imported>>

\* The stores handleClearData clears, each with its own request; the six raw
\* stores are taken as one.
ClearTargets == {"raw", "customerMetrics", "channelMetrics", "segmentMetrics", "jobs"}

\* SettingsScreen.handleClearData: Promise.all starts every clear().
StartClear ==
    /\ clearing = {}
    /\ Len(auditLog) < MaxAudit
    /\ clearing' = ClearTargets
    /\ UNCHANGED <<tabs, raw, modelConfig, derived, jobs, auditLog, txOwner, txBuf, pc, file, cfg,
                   snap, out, msgs, before, clock, plan, imported>>

\* One clear() completes; a clear of a derived store waits for the recompute's
\* open transaction on it.
ClearTable(t) ==
    /\ t \in clearing
    /\ t \in {"customerMetrics", "channelMetrics", "segmentMetrics"} => txOwner = 0
    /\ raw' = IF t = "raw" THEN EmptyRaw ELSE raw
    /\ derived' = IF t \in {"customerMetrics", "channelMetrics", "segmentMetrics"}
                  THEN [derived EXCEPT ![t] = <<>>]
                  ELSE derived
    /\ jobs' = IF t = "jobs" THEN [j \in JobIds |-> NoJob] ELSE jobs
    /\ clearing' = IF clearing = {t} THEN {"audit"} ELSE clearing \ {t}
    /\ UNCHANGED <<tabs, modelConfig, auditLog, txOwner, txBuf, pc, file, cfg, snap, out, msgs,
                   before, clock, plan, imported>>

\* ... and the SETTINGS_CHANGE entry of the clear.
ClearAudit ==
    /\ clearing = {"audit"}
    /\ clearing' = {}
    /\ auditLog' = Append(auditLog, [type |-> "SETTINGS_CHANGE",
                                     payload |-> [processed |-> 0]])
    /\ UNCHANGED <<tabs, raw, modelConfig, derived, jobs, txOwner, txBuf, pc, file, cfg, snap, out,
                   msgs, before, clock, plan, imported>>

\* SpendPlanScreen.handleApprove and handleExport: the actionPlans record and the
\* audit entry (the actionPlans store is not modelled).
PlanAudit(type) ==
    /\ Len(auditLog) < MaxAudit
    /\ auditLog' = Append(auditLog, [type |-> type, payload |-> [processed |-> 0]])
    /\ UNCHANGED <<tabs, raw, modelConfig, derived, jobs, txOwner, txBuf, pc, file, cfg, snap, out,
                   msgs, before, clock, plan, clearing, imported>>

\* JSON.stringify, then JSON.parse, of a number: NaN is written as null.
JsonNumber(x) == IF x = NaN THEN Undefined ELSE x

\* JSON.parse(JSON.stringify(row)) for the rows of a table with one number field.
JsonRows(rows, field) ==
    [i \in 1..Len(rows) |-> [rows[i] EXCEPT ![field] = JsonNumber(@)]]

\* The manifest's modelConfig after JSON.stringify and JSON.parse; no property
\* when the source has no active config.
JsonConfig(config) ==
    IF config = NoConfig THEN config
    ELSE [config EXCEPT !.ltvWindowDays = JsonNumber(@),
                        !.segmentHighQuantile = JsonNumber(@),
                        !.segmentMidQuantile = JsonNumber(@),
                        !.cacLookbackDays = JsonNumber(@)]

\* exportProjectBundle of the open project, then importProjectBundle of the blob:
\* createProject (with its default active config), clear and bulkAdd per table,
\* and the put of the manifest's config when it has one.
TransferBundle ==
    /\ ~imported.exists
    /\ imported' =
          [exists |-> TRUE,
           raw |-> [raw EXCEPT !.transactions = JsonRows(@, "revenueAmount"),
                               !.channels = JsonRows(@, "budgetSpend"),
                               !.channelSpendDaily = JsonRows(@, "spend")],
           derived |-> derived,
           modelConfig |-> IF modelConfig = NoConfig THEN defaultModelConfig
                           ELSE JsonConfig(modelConfig),
           source |-> [raw |-> raw, modelConfig |-> modelConfig]]
    /\ UNCHANGED <<tabs, raw, modelConfig, derived, jobs, auditLog, txOwner, txBuf, pc, file, cfg,
                   snap, out, msgs, before, clock, plan, clearing>>

Next ==
    \E j \in JobIds :
        \/ HandleRecompute(j)
        \/ \E f \in ImportFiles : HandleSubmit(j, f)
        \/ ImportChunk(j)
        \/ ImportAudit(j)
        \/ SubmitRecompute(j)
        \/ GetConfig(j)
        \/ PutRunning(j)
        \/ LoadData(j)
        \/ Progress1(j)
        \/ Progress2(j)
        \/ Progress3(j)
        \/ TxBegin(j)
        \/ TxWrite(j)
        \/ TxCommit(j)
        \/ CompleteJob(j)
        \/ AuditAdd(j)
        \/ Fail(j)

Spec == Init /\ [][Next]_vars

\* ====================================== the engine on drawn project data
\* One recompute (job 1) of a project whose raw tables and active config are drawn
\* from bounded sets: the store as some imports and a settings save have left it.
SeqsUpTo(S, n) == UNION {[1..k -> S] : k \in 0..n}

EngineInit(tables, config) ==
    /\ raw = tables
    /\ modelConfig = config
    /\ derived = EmptyDerived
    /\ jobs = [j \in JobIds |-> IF j = 1 THEN [status |-> "RUNNING", phase |-> "queued"]
                                ELSE NoJob]
    /\ auditLog = <<>>
    /\ txOwner = 0
    /\ txBuf = EmptyDerived
    /\ pc = [j \in JobIds |-> IF j = 1 THEN "start" ELSE "idle"]
    /\ file = [j \in JobIds |-> NoFile]
    /\ cfg = [j \in JobIds |-> defaultModelConfig]
    /\ snap = [j \in JobIds |-> EmptyRaw]
    /\ out = [j \in JobIds |-> NoOut]
    /\ msgs = [j \in JobIds |-> <<>>]
    /\ before = [j \in JobIds |-> EmptyDerived]
    /\ clock = GetTime(MaxDay)
    /\ plan = NoPlan
    /\ clearing = {}
    /\ imported = NoImport
    /\ tabs = NoTabs

\* The pipeline up to the computed metrics ...
ComputeNext ==
    \/ GetConfig(1)
    \/ PutRunning(1)
    \/ LoadData(1)
    \/ Progress1(1)
    \/ Progress2(1)

\* ... and to its end.
EngineNext ==
    \/ ComputeNext
    \/ Progress3(1)
    \/ TxBegin(1)
    \/ TxWrite(1)
    \/ TxCommit(1)
    \/ CompleteJob(1)
    \/ AuditAdd(1)

\* The pipeline's locals hold the customer metrics of the drawn data.
CustomerComputed == pc[1] = "progress2"

\* The pipeline's locals hold the channel and segment metrics of the drawn data.
ChannelComputed == pc[1] = "progress3"

\* The recompute has replaced the derived tables.
Materialized == pc[1] \in {"completeJob", "audit", "done"}

\* ---- events and churn types
EventValues == [customerId : {"c1", "c2"}, type : EventTypes, date : Days]

ChurnTypeSets == {{}, {"churn"}, {"churn", "visit"}}

InitChurn ==
    \E events \in SeqsUpTo(EventValues, MaxRows), types \in ChurnTypeSets :
        EngineInit([EmptyRaw EXCEPT !.events = events],
                   [defaultModelConfig EXCEPT !.churnEventTypes = types])

SpecChurn == InitChurn /\ [][ComputeNext]_vars

\* ---- one customer's transactions, churn event, acquisition date and LTV window
CustomerRow(id, acquisitionDate, channelSourceId) ==
    [pk |-> id, customerId |-> id, acquisitionDate |-> acquisitionDate,
     channelSourceId |-> channelSourceId]

TxnValues == [customerId : {"c1"}, revenueAmount : {1, 2}, date : Days]

WindowValues == {Undefined, 0, 1}

InitTotals ==
    \E customers \in {<<>>} \cup {<<CustomerRow("c1", a, NoChannel)>> :
                                    a \in {Undefined} \cup Days},
       events \in {<<>>} \cup {<<[customerId |-> "c1", type |-> "churn", date |-> d]>> :
                                 d \in Days},
       window \in WindowValues,
       transactions \in SeqsUpTo(TxnValues, MaxRows) :
        EngineInit([EmptyRaw EXCEPT !.customers = customers, !.events = events,
                                    !.transactions = transactions],
                   [defaultModelConfig EXCEPT !.churnEventTypes = {"churn"},
                                              !.ltvWindowDays = window])

SpecTotals == InitTotals /\ [][ComputeNext]_vars

\* ---- customers with drawn lifetime values, and drawn quantiles
QuantileValues == {5, 7, 9}

LtvValues == {0, 1, 2}

\* The first n customers, customer i with one transaction of revenue ltvs[i] when
\* that is not 0.
CustomersUpTo(n) == [i \in 1..n |-> CustomerRow(CustomerOrder[i], Undefined, NoChannel)]

RECURSIVE TxnsOf(_, _)
TxnsOf(ltvs, i) ==
    IF i > Len(ltvs) THEN <<>>
    ELSE (IF ltvs[i] = 0 THEN <<>>
          ELSE <<[customerId |-> CustomerOrder[i], revenueAmount |-> ltvs[i], date |-> 0]>>)
         \o TxnsOf(ltvs, i + 1)

InitSegments ==
    \E n \in 0..MaxCustomers, high \in QuantileValues, mid \in QuantileValues :
        \E ltvs \in [1..n -> LtvValues] :
            EngineInit([EmptyRaw EXCEPT !.customers = CustomersUpTo(n),
                                        !.transactions = TxnsOf(ltvs, 1)],
                       [defaultModelConfig EXCEPT !.segmentHighQuantile = high,
                                                  !.segmentMidQuantile = mid])

SpecSegments == InitSegments /\ [][EngineNext]_vars

\* ---- customers with channel hints, AcquiredVia edges and the attribution mode
EdgeValues == [customerId : {"c1", "c2"}, channelId : ChannelIds]

EdgeRank(edge) ==
    Len(ChannelOrder) * KeyRank(edge.customerId)
    + (CHOOSE i \in 1..Len(ChannelOrder) : ChannelOrder[i] = edge.channelId)

\* The rows of an acquiredVia table in [customerId+channelId] key order.
RECURSIVE EdgeTable(_)
EdgeTable(edges) ==
    IF edges = {} THEN <<>>
    ELSE LET first == CHOOSE e \in edges : \A f \in edges : EdgeRank(e) <= EdgeRank(f)
         IN  <<first>> \o EdgeTable(edges \ {first})

EdgeSets == {edges \in SUBSET EdgeValues : Cardinality(edges) <= MaxRows}

ChannelTable == [i \in 1..Len(ChannelOrder) |->
                    [pk |-> ChannelOrder[i], channelId |-> ChannelOrder[i],
                     budgetSpend |-> Undefined]]

InitAttribution ==
    \E n \in 0..MaxRows, edges \in EdgeSets,
       mode \in {"channel_field", "acquired_via"} :
        \E hints \in [1..n -> {NoChannel} \cup ChannelIds] :
            EngineInit([EmptyRaw EXCEPT
                            !.customers = [i \in 1..n |->
                                CustomerRow(CustomerOrder[i], Undefined, hints[i])],
                            !.channels = ChannelTable,
                            !.acquiredVia = EdgeTable(edges)],
                       [defaultModelConfig EXCEPT !.attributionMode = mode])

SpecAttribution == InitAttribution /\ [][EngineNext]_vars

\* ---- channels with budgets, daily spend rows, the spend source and the lookback
BudgetValues == {Undefined, 5}

\* The channels tables: each channel missing, or there with or without a budget.
ChannelTables ==
    UNION {{SelectSeq([i \in 1..Len(ChannelOrder) |->
                         [pk |-> ChannelOrder[i], channelId |-> ChannelOrder[i],
                          budgetSpend |-> budgets[i]]],
                      LAMBDA row : row.channelId \in present) :
               budgets \in [1..Len(ChannelOrder) -> BudgetValues]} :
              present \in SUBSET ChannelIds}

SpendKeys == ChannelIds \X Days

SpendKeyRank(key) ==
    (MaxDay + 1) * (CHOOSE i \in 1..Len(ChannelOrder) : ChannelOrder[i] = key[1]) + key[2]

\* The rows of a channelSpendDaily table in [channelId+date] key order.
RECURSIVE SpendTable(_, _)
SpendTable(keys, spends) ==
    IF keys = {} THEN <<>>
    ELSE LET first == CHOOSE k \in keys : \A l \in keys : SpendKeyRank(k) <= SpendKeyRank(l)
         IN  <<[channelId |-> first[1], date |-> first[2], spend |-> spends[first]]>>
             \o SpendTable(keys \ {first}, spends)

SpendTables ==
    UNION {{SpendTable(keys, spends) : spends \in [keys -> {1, 2}]} :
              keys \in {k \in SUBSET SpendKeys : Cardinality(k) <= MaxRows}}

LookbackValues == {Undefined, 1}

\* Customer c1 acquired through paid, c2 through brand.
InitSpend ==
    \E channels \in ChannelTables, spendDaily \in SpendTables,
       source \in {"daily", "channel_total"}, lookback \in LookbackValues :
        EngineInit([EmptyRaw EXCEPT
                        !.customers = <<CustomerRow("c1", Undefined, "paid"),
                                        CustomerRow("c2", Undefined, "brand")>>,
                        !.channels = channels,
                        !.channelSpendDaily = spendDaily],
                   [defaultModelConfig EXCEPT !.cacSpendSource = source,
                                              !.cacLookbackDays = lookback])

SpecSpend == InitSpend /\ [][EngineNext]_vars

\* ---- customers with channel fields and lifetime values, and four spend cases
SpendCases ==
    {[channels |-> ChannelTable, spendDaily |-> <<>>, source |-> "daily"],
     [channels |-> [ChannelTable EXCEPT ![2].budgetSpend = 5], spendDaily |-> <<>>,
      source |-> "channel_total"],
     [channels |-> ChannelTable,
      spendDaily |-> <<[channelId |-> "brand", date |-> 0, spend |-> 2],
                       [channelId |-> "paid", date |-> 1, spend |-> 1]>>,
      source |-> "daily"],
     [channels |-> ChannelTable,
      spendDaily |-> <<[channelId |-> "paid", date |-> 0, spend |-> -2]>>,
      source |-> "daily"]}

InitChannels ==
    \E n \in 0..MaxRows, case \in SpendCases, high \in {9, 10} :
        \E hints \in [1..n -> {NoChannel} \cup ChannelIds], ltvs \in [1..n -> LtvValues] :
            EngineInit([EmptyRaw EXCEPT
                            !.customers = [i \in 1..n |->
                                CustomerRow(CustomerOrder[i], Undefined, hints[i])],
                            !.transactions = TxnsOf(ltvs, 1),
                            !.channels = case.channels,
                            !.channelSpendDaily = case.spendDaily],
                       [defaultModelConfig EXCEPT !.cacSpendSource = case.source,
                                                  !.segmentHighQuantile = high])

SpecChannels == InitChannels /\ [][EngineNext]_vars

\* ---- a second recompute right after the first, while the wall clock advances
\* Date.now() a day later.
Tick ==
    /\ clock < GetTime(MaxDay + 1)
    /\ clock' = clock + DayMs
    /\ UNCHANGED <<tabs, imported, clearing, plan, raw, modelConfig, derived, jobs, auditLog, txOwner, txBuf, pc, file, cfg,
                   snap, out, msgs, before>>

\* "Recompute now" once the first recompute has returned, and that run's steps.
SecondRun ==
    \/ pc[1] = "done" /\ HandleRecompute(2)
    \/ GetConfig(2)
    \/ PutRunning(2)
    \/ LoadData(2)
    \/ Progress1(2)
    \/ Progress2(2)
    \/ Progress3(2)
    \/ TxBegin(2)
    \/ TxWrite(2)
    \/ TxCommit(2)
    \/ CompleteJob(2)
    \/ AuditAdd(2)

RerunNext ==
    \/ EngineNext
    \/ SecondRun
    \/ Tick

InitRerun ==
    \E case \in SpendCases, lookback \in LookbackValues :
        EngineInit([EmptyRaw EXCEPT
                        !.customers = <<CustomerRow("c1", Undefined, "paid"),
                                        CustomerRow("c2", Undefined, "brand")>>,
                        !.transactions = TxnsOf(<<2, 1>>, 1),
                        !.channels = case.channels,
                        !.channelSpendDaily = case.spendDaily],
                   [defaultModelConfig EXCEPT !.cacSpendSource = case.source,
                                              !.cacLookbackDays = lookback])

SpecRerun == InitRerun /\ [][RerunNext]_vars

\* ---- the active configuration missing, or saved from the settings form with
\* quantile fields outside (0, 1): Number('1.5') and Number('') are stored as typed
SavedHighQuantiles == {Undefined, 9, 15, 0}

SavedMidQuantiles == {Undefined, 7, 15}

SavedConfigs ==
    {NoConfig}
    \cup {[defaultModelConfig EXCEPT !.segmentHighQuantile = high, !.segmentMidQuantile = mid] :
            high \in SavedHighQuantiles, mid \in SavedMidQuantiles}

InitConfig ==
    \E n \in 0..MaxRows, config \in SavedConfigs :
        \E ltvs \in [1..n -> LtvValues] :
            EngineInit([EmptyRaw EXCEPT !.customers = CustomersUpTo(n),
                                        !.transactions = TxnsOf(ltvs, 1)],
                       config)

SpecConfig == InitConfig /\ [][EngineNext]_vars

\* ---- one import and recompute of a new project beside the other operations
SettingsSaves == {[defaultModelConfig EXCEPT !.segmentHighQuantile = 5]}

AppNext ==
    \/ HandleRecompute(1)
    \/ \E f \in ImportFiles : HandleSubmit(1, f)
    \/ ImportChunk(1)
    \/ ImportAudit(1)
    \/ SubmitRecompute(1)
    \/ EngineNext
    \/ \E config \in SettingsSaves : SaveSettings(config)
    \/ StartClear
    \/ \E t \in ClearTargets : ClearTable(t)
    \/ ClearAudit
    \/ \E type \in {"ACTION_PLAN_APPROVED", "ACTION_PLAN_EXPORTED"} : PlanAudit(type)
    \/ TransferBundle

SpecApp == Init /\ [][AppNext]_vars

\* ---- a project with drawn customers and a saved configuration, recomputed and
\* transferred as a bundle
TransferConfigs ==
    {NoConfig, defaultModelConfig, [defaultModelConfig EXCEPT !.segmentHighQuantile = NaN]}

InitTransfer ==
    \E n \in 0..MaxCustomers, config \in TransferConfigs :
        \E ltvs \in [1..n -> LtvValues] :
            EngineInit([EmptyRaw EXCEPT !.customers = CustomersUpTo(n),
                                        !.transactions = TxnsOf(ltvs, 1)],
                       config)

TransferNext ==
    \/ EngineNext
    \/ TransferBundle

SpecTransfer == InitTransfer /\ [][TransferNext]_vars

\* ---- ProjectShell: the tabs of one project, the Web Lock and the BroadcastChannel
\* The tabs other than t whose channel is open receive one 'writer-active'.
PostWriterActive(all, t) ==
    [u \in TabIds |-> IF u /= t /\ all[u].status = "open"
                      THEN [all[u] EXCEPT !.inbox = @ + 1]
                      ELSE all[u]]

\* setHasWriteLock(value) in tab t and, when the state changes, the re-run of the
\* channel effect: the old channel is closed (what it had not handled is lost), the
\* new one posts 'ping' (which no handler reads) and, when the tab now has the
\* write lock, 'writer-active'.
SetHasWriteLock(all, t, value) ==
    IF all[t].hasWriteLock = value THEN all
    ELSE LET changed == [all EXCEPT ![t].hasWriteLock = value, ![t].inbox = 0]
         IN  IF value THEN PostWriterActive(changed, t) ELSE changed

\* The project route mounts in tab t: useState(true), the lock request, and the
\* channel effect with hasWriteLock still true.
OpenTab(t) ==
    /\ tabs[t].status = "unopened"
    /\ tabs' = PostWriterActive(
                   [tabs EXCEPT ![t] = [status |-> "open", hasWriteLock |-> TRUE,
                                        lock |-> "requested", inbox |-> 0]], t)
    /\ UNCHANGED <<raw, modelConfig, derived, jobs, auditLog, txOwner, txBuf, pc, file, cfg,
                   snap, out, msgs, before, clock, plan, clearing, imported>>

\* The lock manager runs the callback of tab t's request ({ifAvailable: true}):
\* with the lock when no tab holds it, with null otherwise.
LockCallback(t) ==
    /\ tabs[t].status = "open"
    /\ tabs[t].lock = "requested"
    /\ tabs' = IF \E u \in TabIds : tabs[u].lock = "held"
               THEN SetHasWriteLock([tabs EXCEPT ![t].lock = "denied"], t, FALSE)
               ELSE SetHasWriteLock([tabs EXCEPT ![t].lock = "held"], t, TRUE)
    /\ UNCHANGED <<raw, modelConfig, derived, jobs, auditLog, txOwner, txBuf, pc, file, cfg,
                   snap, out, msgs, before, clock, plan, clearing, imported>>

\* channel.onmessage with a 'writer-active' message.
OnWriterActive(t) ==
    /\ tabs[t].status = "open"
    /\ tabs[t].inbox > 0
    /\ tabs' = SetHasWriteLock([tabs EXCEPT ![t].inbox = @ - 1], t, FALSE)
    /\ UNCHANGED <<raw, modelConfig, derived, jobs, auditLog, txOwner, txBuf, pc, file, cfg,
                   snap, out, msgs, before, clock, plan, clearing, imported>>

\* The tab leaves the project: the effects' cleanups release the lock and close
\* the channel.
CloseTab(t) ==
    /\ tabs[t].status = "open"
    /\ tabs' = [tabs EXCEPT ![t] = [status |-> "closed", hasWriteLock |-> FALSE,
                                    lock |-> "none", inbox |-> 0]]
    /\ UNCHANGED <<raw, modelConfig, derived, jobs, auditLog, txOwner, txBuf, pc, file, cfg,
                   snap, out, msgs, before, clock, plan, clearing, imported>>

TabsNext ==
    \E t \in TabIds :
        \/ OpenTab(t)
        \/ LockCallback(t)
        \/ OnWriterActive(t)
        \/ CloseTab(t)

SpecTabs == Init /\ [][TabsNext]_vars

\* ---- the recommender: generateRecommendations over bounded lists of channel metrics
MaxChannels == 4

PlanChannelIds == <<"ch1", "ch2", "ch3", "ch4", "ch5", "ch6">>

\* Channel rows as the recommender reads them; netValue is avgLtv - cac.
ChannelProfile(share, cac, avgLtv, acquired, spend) ==
    [highLtvShare |-> Q(share, 100), cac |-> QInt(cac), avgLtv |-> QInt(avgLtv),
     netValue |-> QInt(avgLtv - cac), acquiredCustomers |-> acquired, spend |-> spend]

ChannelProfiles ==
    {ChannelProfile(80, 50, 300, 2, 100),
     ChannelProfile(60, 120, 300, 1, 120),
     ChannelProfile(25, 200, 220, 1, 200),
     ChannelProfile(5, 300, 100, 1, 300),
     ChannelProfile(10, 10, 1, 1, 10),
     ChannelProfile(50, -50, 100, 1, -50)}

MetricsOf(profiles) ==
    [i \in 1..Len(profiles) |->
        [channelId |-> PlanChannelIds[i],
         highLtvShare |-> profiles[i].highLtvShare,
         cac |-> profiles[i].cac,
         avgLtv |-> profiles[i].avgLtv,
         netValue |-> profiles[i].netValue,
         acquiredCustomers |-> profiles[i].acquiredCustomers,
         spend |-> profiles[i].spend]]

\* generateRecommendations(metrics, strategy) up to the chosen targets; an empty
\* list returns at once.
PlanPick ==
    /\ plan.stage = "called"
    /\ plan' = IF Len(plan.metrics) = 0
               THEN [plan EXCEPT !.stage = "returned"]
               ELSE LET targets == pickTargets(plan.strategy, plan.metrics)
                    IN  [plan EXCEPT !.stage = "picked",
                                     !.items = baseItemsOf(plan.metrics, plan.strategy),
                                     !.increaseTargets = targets.increaseTargets,
                                     !.decreaseTargets = targets.decreaseTargets]
    /\ UNCHANGED <<tabs, raw, modelConfig, derived, jobs, auditLog, txOwner, txBuf, pc, file, cfg,
                   snap, out, msgs, before, clock, clearing, imported>>

\* The decrease pass.
PlanDecrease ==
    /\ plan.stage = "picked"
    /\ LET intendedShift == QMul(SHIFT_BY_STRATEGY(plan.strategy),
                                 totalSpendOf(plan.metrics, 1))
           decreaseBudget == IF Len(plan.increaseTargets) > 0 THEN intendedShift ELSE Zero
           pass == applyAdjustments(plan.items,
                                    decreaseOnly(plan.decreaseTargets, plan.increaseTargets),
                                    decreaseBudget, "decrease", plan.strategy, plan.touched)
       IN  plan' = [plan EXCEPT !.stage = "decreased",
                                !.items = pass.items,
                                !.touched = pass.touched,
                                !.actualDecrease = pass.applied]
    /\ UNCHANGED <<tabs, raw, modelConfig, derived, jobs, auditLog, txOwner, txBuf, pc, file, cfg,
                   snap, out, msgs, before, clock, clearing, imported>>

\* The increase pass, the hold rationale of the untouched items, and the return.
PlanIncrease ==
    /\ plan.stage = "decreased"
    /\ LET pass == applyAdjustments(plan.items, plan.increaseTargets, plan.actualDecrease,
                                    "increase", plan.strategy, plan.touched)
       IN  plan' = [plan EXCEPT
                       !.stage = "returned",
                       !.touched = pass.touched,
                       !.items = [i \in 1..Len(pass.items) |->
                                     IF pass.items[i].channelId \in pass.touched
                                     THEN pass.items[i]
                                     ELSE [pass.items[i] EXCEPT
                                              !.rationale = HOLD_RATIONALE(plan.strategy)]]]
    /\ UNCHANGED <<tabs, raw, modelConfig, derived, jobs, auditLog, txOwner, txBuf, pc, file, cfg,
                   snap, out, msgs, before, clock, clearing, imported>>

PlanNext ==
    \/ PlanPick
    \/ PlanDecrease
    \/ PlanIncrease

InitPlan ==
    /\ raw = EmptyRaw
    /\ modelConfig = defaultModelConfig
    /\ derived = EmptyDerived
    /\ jobs = [j \in JobIds |-> NoJob]
    /\ auditLog = <<>>
    /\ txOwner = 0
    /\ txBuf = EmptyDerived
    /\ pc = [j \in JobIds |-> "idle"]
    /\ file = [j \in JobIds |-> NoFile]
    /\ cfg = [j \in JobIds |-> defaultModelConfig]
    /\ snap = [j \in JobIds |-> EmptyRaw]
    /\ out = [j \in JobIds |-> NoOut]
    /\ msgs = [j \in JobIds |-> <<>>]
    /\ before = [j \in JobIds |-> EmptyDerived]
    /\ clock = GetTime(MaxDay)
    /\ clearing = {}
    /\ imported = NoImport
    /\ tabs = NoTabs
    /\ \E profiles \in SeqsUpTo(ChannelProfiles, MaxChannels), strategy \in Strategies :
           plan = [NoPlan EXCEPT !.stage = "called", !.strategy = strategy,
                                 !.metrics = MetricsOf(profiles)]

SpecPlan == InitPlan /\ [][PlanNext]_vars

\* ---- target selection under high_efficiency over channels on both sides of
\* every test
TargetProfiles ==
    {ChannelProfile(80, 50, 300, 2, 100),
     ChannelProfile(60, 120, 300, 1, 120),
     ChannelProfile(25, 200, 220, 1, 200),
     ChannelProfile(5, 300, 100, 1, 300),
     ChannelProfile(10, 10, 15, 1, 10),
     ChannelProfile(20, 100, 150, 1, 100)}

InitTargets ==
    /\ raw = EmptyRaw
    /\ modelConfig = defaultModelConfig
    /\ derived = EmptyDerived
    /\ jobs = [j \in JobIds |-> NoJob]
    /\ auditLog = <<>>
    /\ txOwner = 0
    /\ txBuf = EmptyDerived
    /\ pc = [j \in JobIds |-> "idle"]
    /\ file = [j \in JobIds |-> NoFile]
    /\ cfg = [j \in JobIds |-> defaultModelConfig]
    /\ snap = [j \in JobIds |-> EmptyRaw]
    /\ out = [j \in JobIds |-> NoOut]
    /\ msgs = [j \in JobIds |-> <<>>]
    /\ before = [j \in JobIds |-> EmptyDerived]
    /\ clock = GetTime(MaxDay)
    /\ clearing = {}
    /\ imported = NoImport
    /\ tabs = NoTabs
    /\ \E profiles \in SeqsUpTo(TargetProfiles, MaxChannels) :
           plan = [NoPlan EXCEPT !.stage = "called", !.strategy = "high_efficiency",
                                 !.metrics = MetricsOf(profiles)]

SpecTargets == InitTargets /\ [][PlanPick]_vars

\* ================================================== the claims, C1 .. C5
\* The raw tables the concurrent model reaches: empty, or after the import.
RawStates ==
    {EmptyRaw} \cup {[EmptyRaw EXCEPT ![f.dataset] = BulkPut(@, f.rows, 1)] : f \in ImportFiles}

RecomputeEntries == Cardinality({i \in 1..Len(auditLog) : auditLog[i].type = "RECOMPUTE"})

\* C2: a recompute that has failed (at any step before its audit entry) has left
\* the derived tables as they were when it started, and has added no RECOMPUTE
\* audit entry.
C2_FailedRunLeavesTables ==
    /\ \A j \in JobIds : pc[j] = "failed" => derived = before[j]
    /\ RecomputeEntries <= Cardinality({j \in JobIds : pc[j] = "done"})

\* C3: when the recompute has thrown, its job record is FAILED (not RUNNING).
C3_ThrownRunEndsFailed ==
    \A j \in JobIds : pc[j] = "failed" => jobs[j].status = "FAILED"

\* C4: every recompute that has returned has its RECOMPUTE audit entry, with the
\* numbers of customer and channel rows it wrote, there are no other RECOMPUTE
\* entries, and no job that has ended is COMPLETED without its entry.
C4_CompletedJobHasAudit ==
    /\ \A j \in JobIds :
          pc[j] = "done" => \E i \in 1..Len(auditLog) : auditLog[i] = RecomputeEntry(out[j])
    /\ RecomputeEntries = Cardinality({j \in JobIds : pc[j] = "done"})
    /\ Cardinality({j \in JobIds : pc[j] \in {"done", "failed"}
                                     /\ jobs[j].status = "COMPLETED"}) <= RecomputeEntries

\* The pipeline of job j has started to read or write the project's tables and has
\* neither returned nor thrown.
InFlight(j) == pc[j] \notin {"idle", "import", "imported", "importDone", "start", "done", "failed"}

\* C5: at most one recompute of the project is in flight at any time.
C5_OneRecomputeInFlight == Cardinality({j \in JobIds : InFlight(j)}) <= 1

\* ================================================= the claims, C6 .. C10
SegmentsIn(rows) == {rows[i].ltvSegment : i \in 1..Len(rows)}

RECURSIVE SumCustomerCount(_, _)
SumCustomerCount(rows, i) ==
    IF i > Len(rows) THEN 0 ELSE rows[i].customerCount + SumCustomerCount(rows, i + 1)

\* C6: after a recompute, for every configuration, every CustomerMetrics row has
\* exactly one of the segments HIGH, MID, LOW, no customer has two rows, every
\* SegmentMetrics row counts the customers of its segment, no segment has two rows,
\* and the customerCount values add up to the number of CustomerMetrics rows.
C6_SegmentsPartitionCustomers ==
    Materialized =>
        LET customerMetrics == derived.customerMetrics
            segmentMetrics == derived.segmentMetrics
        IN  /\ \A i \in 1..Len(customerMetrics) :
                  customerMetrics[i].ltvSegment \in {"HIGH", "MID", "LOW"}
            /\ \A i, k \in 1..Len(customerMetrics) :
                  customerMetrics[i].customerId = customerMetrics[k].customerId => i = k
            /\ \A a, b \in 1..Len(segmentMetrics) :
                  segmentMetrics[a].segmentKey = segmentMetrics[b].segmentKey => a = b
            /\ \A a \in 1..Len(segmentMetrics) :
                  segmentMetrics[a].customerCount =
                      Cardinality({i \in 1..Len(customerMetrics) :
                                      customerMetrics[i].ltvSegment
                                          = segmentMetrics[a].segmentKey})
            /\ SumCustomerCount(segmentMetrics, 1) = Len(customerMetrics)

\* A recompute has written customers of all three segments.
C6_Witness ==
    /\ Materialized
    /\ Len(derived.customerMetrics) >= 4
    /\ SegmentsIn(derived.customerMetrics) = {"HIGH", "MID", "LOW"}

\* The value at index idx (from 0) of the values sorted ascending, said by counting:
\* at most idx values are smaller and more than idx values are not larger.
ValueAtRank(values, idx) ==
    CHOOSE v \in {values[i] : i \in 1..Len(values)} :
        /\ Cardinality({i \in 1..Len(values) : values[i] < v}) <= idx
        /\ Cardinality({i \in 1..Len(values) : values[i] <= v}) > idx

Permuted(s, p) == [i \in 1..Len(s) |-> s[p[i]]]

\* C7: with n >= 1 customers, the thresholds are the values at indices
\* floor((n-1) * quantile) of the LTVs sorted ascending; a customer is HIGH iff
\* ltv >= highThreshold, MID iff midThreshold <= ltv < highThreshold, LOW iff
\* neither; and every reordering of the customers gives each customer the same
\* segment.
C7_SegmentsByQuantile ==
    (CustomerComputed /\ out[1].totals /= <<>>) =>
        LET totals == out[1].totals
            n == Len(totals)
            ltvs == [i \in 1..n |-> totals[i].value.ltv]
            highThreshold == ValueAtRank(ltvs, ((n - 1) * cfg[1].segmentHighQuantile) \div 10)
            midThreshold == ValueAtRank(ltvs, ((n - 1) * cfg[1].segmentMidQuantile) \div 10)
            segment(i) == SegmentGet(out[1].segments, totals[i].key)
        IN  /\ \A i \in 1..n :
                  /\ segment(i) = "HIGH" <=> ltvs[i] >= highThreshold
                  /\ segment(i) = "MID" <=> (midThreshold <= ltvs[i] /\ ltvs[i] < highThreshold)
                  /\ segment(i) = "LOW" <=> (ltvs[i] < midThreshold /\ ltvs[i] < highThreshold)
            /\ \A p \in Permutations(1..n) :
                  LET reordered == assignSegments(Permuted(totals, p), cfg[1])
                  IN  \A k \in 1..n :
                          /\ reordered[k].key = totals[p[k]].key
                          /\ reordered[k].value = segment(p[k])

\* Customers of all three segments, two of them with the same LTV.
C7_Witness ==
    /\ CustomerComputed
    /\ {out[1].segments[i].value : i \in 1..Len(out[1].segments)} = {"HIGH", "MID", "LOW"}
    /\ \E i, k \in 1..Len(out[1].totals) :
          i < k /\ out[1].totals[i].value.ltv = out[1].totals[k].value.ltv

Minimum(S) == CHOOSE x \in S : \A y \in S : x <= y

\* C8: the churn map holds, for every customer with an event of a churn type, the
\* minimum timestamp of those events, whatever the timestamps are, and has no
\* entry for the other customers.
C8_ChurnMapHoldsEarliest ==
    CustomerComputed =>
        \A c \in {raw.events[i].customerId : i \in 1..Len(raw.events)} :
            LET qualifying == {i \in 1..Len(raw.events) :
                                  /\ raw.events[i].customerId = c
                                  /\ raw.events[i].type \in cfg[1].churnEventTypes}
            IN  IF qualifying = {}
                THEN ~MapHas(out[1].churnDates, c)
                ELSE /\ MapHas(out[1].churnDates, c)
                     /\ MapGet(out[1].churnDates, c)
                            = Minimum({GetTime(raw.events[i].date) : i \in qualifying})

\* The acquisition date of the customer's row, Undefined without row or date.
AcquisitionDateOf(customers, customerId) ==
    IF \E i \in 1..Len(customers) : customers[i].customerId = customerId
    THEN customers[CHOOSE i \in 1..Len(customers) :
                       customers[i].customerId = customerId].acquisitionDate
    ELSE Undefined

\* The condition of C9 for one transaction.
CountedByContract(txn, churnDates, customers, ltvWindowDays) ==
    /\ \/ ~MapHas(churnDates, txn.customerId)
       \/ GetTime(txn.date) <= MapGet(churnDates, txn.customerId)
    /\ \/ ltvWindowDays = Undefined
       \/ AcquisitionDateOf(customers, txn.customerId) = Undefined
       \/ GetTime(txn.date)
              <= GetTime(AcquisitionDateOf(customers, txn.customerId)) + ltvWindowDays * DayMs

RECURSIVE SumRevenue(_, _)
SumRevenue(transactions, indices) ==
    IF indices = {} THEN 0
    ELSE LET i == CHOOSE k \in indices : TRUE
         IN  transactions[i].revenueAmount + SumRevenue(transactions, indices \ {i})

\* C9: a customer's ltv and txnCount are the sum of revenue and the number of
\* exactly the transactions that are not after the customer's churn timestamp (if
\* there is one) and not after acquisitionDate + ltvWindowDays (if both are
\* there); a customer of the customers table without such a transaction has 0
\* and 0.
C9_CountedTransactions ==
    CustomerComputed =>
        \A c \in {"c1"} :
            LET counted == {i \in 1..Len(raw.transactions) :
                               /\ raw.transactions[i].customerId = c
                               /\ CountedByContract(raw.transactions[i], out[1].churnDates,
                                                    raw.customers, cfg[1].ltvWindowDays)}
                known == \E i \in 1..Len(raw.customers) : raw.customers[i].customerId = c
            IN  /\ (known \/ counted /= {}) => MapHas(out[1].totals, c)
                /\ MapHas(out[1].totals, c) =>
                      LET entry == out[1].totals[MapIndex(out[1].totals, c)].value
                      IN  /\ entry.ltv = SumRevenue(raw.transactions, counted)
                          /\ entry.txnCount = Cardinality(counted)

RECURSIVE SumAcquired(_, _)
SumAcquired(rows, i) ==
    IF i > Len(rows) THEN 0 ELSE rows[i].acquiredCustomers + SumAcquired(rows, i + 1)

\* C10: after a recompute there is one channel (or none) for each customer with a
\* CustomerMetrics row such that every ChannelMetrics row counts the customers of
\* its channel; no channel has two rows; so the acquiredCustomers values add up to
\* at most the number of CustomerMetrics rows, whatever the AcquiredVia edges are.
C10_CountedInOneChannel ==
    Materialized =>
        LET customerMetrics == derived.customerMetrics
            rows == derived.channelMetrics
        IN  /\ \A a, b \in 1..Len(rows) : rows[a].channelId = rows[b].channelId => a = b
            /\ \E channelOf \in [1..Len(customerMetrics) -> ChannelIds \cup {NoChannel}] :
                  \A a \in 1..Len(rows) :
                      rows[a].acquiredCustomers =
                          Cardinality({i \in 1..Len(customerMetrics) :
                                          channelOf[i] = rows[a].channelId})
            /\ SumAcquired(rows, 1) <= Len(customerMetrics)

\* A recompute in acquired_via mode with a customer whom two edges reference, and
\* every customer attributed.
C10_Witness ==
    /\ Materialized
    /\ modelConfig.attributionMode = "acquired_via"
    /\ \E i, k \in 1..Len(raw.acquiredVia) :
          /\ i /= k
          /\ raw.acquiredVia[i].customerId = raw.acquiredVia[k].customerId
          /\ \E m \in 1..Len(derived.customerMetrics) :
                derived.customerMetrics[m].customerId = raw.acquiredVia[i].customerId
    /\ derived.customerMetrics /= <<>>
    /\ SumAcquired(derived.channelMetrics, 1) = Len(derived.customerMetrics)

\* ================================================ the claims, C11 .. C20
\* The channel of the customer's first AcquiredVia edge in scan order.
FirstEdgeChannel(acquiredVia, customerId) ==
    acquiredVia[Minimum({i \in 1..Len(acquiredVia) :
                            acquiredVia[i].customerId = customerId})].channelId

HasEdge(acquiredVia, customerId) ==
    \E i \in 1..Len(acquiredVia) : acquiredVia[i].customerId = customerId

\* The customers the attribution can name: those of the customers table and those
\* of the edges.
NamedCustomers ==
    {raw.customers[i].customerId : i \in 1..Len(raw.customers)}
    \cup {raw.acquiredVia[i].customerId : i \in 1..Len(raw.acquiredVia)}

\* The map holds, for every customer, what the edges alone give.
MapOfEdgesAlone(customerChannel) ==
    \A c \in NamedCustomers :
        IF HasEdge(raw.acquiredVia, c)
        THEN /\ MapHas(customerChannel, c)
             /\ ChannelGet(customerChannel, c) = FirstEdgeChannel(raw.acquiredVia, c)
        ELSE ~MapHas(customerChannel, c)

SourceIdOf(customerId) ==
    IF \E i \in 1..Len(raw.customers) : raw.customers[i].customerId = customerId
    THEN raw.customers[CHOOSE i \in 1..Len(raw.customers) :
                           raw.customers[i].customerId = customerId].channelSourceId
    ELSE NoChannel

\* The map holds exactly the customers with a channelSourceId, each with its own.
MapOfFieldAlone(customerChannel) ==
    \A c \in NamedCustomers :
        IF SourceIdOf(c) /= NoChannel
        THEN /\ MapHas(customerChannel, c)
             /\ ChannelGet(customerChannel, c) = SourceIdOf(c)
        ELSE ~MapHas(customerChannel, c)

\* C11: in mode acquired_via the customer-to-channel map is that of the edges
\* alone: a customer with an edge has the channel of its first edge, a customer
\* without an edge has no channel, whatever its channelSourceId.
C11_EdgesAloneInAcquiredVia ==
    (ChannelComputed /\ cfg[1].attributionMode = "acquired_via") =>
        MapOfEdgesAlone(out[1].customerChannel)

\* C11 as amended: in mode acquired_via with at least one edge the map is that of
\* the edges alone (first edge per customer, a customer without an edge has no
\* channel whatever its channelSourceId); with no edge at all the map is that of
\* the channelSourceId fields.
C11_EdgesAloneWhenEdgesExist ==
    (ChannelComputed /\ cfg[1].attributionMode = "acquired_via") =>
        IF Len(raw.acquiredVia) > 0
        THEN MapOfEdgesAlone(out[1].customerChannel)
        ELSE MapOfFieldAlone(out[1].customerChannel)

\* Mode acquired_via, a customer whom two edges reference, and a customer with a
\* channelSourceId and no edge.
C11_Witness ==
    /\ ChannelComputed
    /\ cfg[1].attributionMode = "acquired_via"
    /\ \E i, k \in 1..Len(raw.acquiredVia) :
          i < k /\ raw.acquiredVia[i].customerId = raw.acquiredVia[k].customerId
    /\ \E c \in NamedCustomers : SourceIdOf(c) /= NoChannel /\ ~HasEdge(raw.acquiredVia, c)

\* C12: in mode channel_field, when some customer has a channelSourceId the map
\* holds exactly the customers with a channelSourceId, each with its own, and no
\* edge attributes anybody; when no customer has one and there are edges the map
\* is that of the edges alone.
C12_FieldOrEdgesAsAWhole ==
    (ChannelComputed /\ cfg[1].attributionMode = "channel_field") =>
        IF \E c \in NamedCustomers : SourceIdOf(c) /= NoChannel
        THEN MapOfFieldAlone(out[1].customerChannel)
        ELSE Len(raw.acquiredVia) > 0 => MapOfEdgesAlone(out[1].customerChannel)

\* Mode channel_field, a customer with a channelSourceId, and another customer
\* without one whom an edge references.
C12_Witness ==
    /\ ChannelComputed
    /\ cfg[1].attributionMode = "channel_field"
    /\ \E c, d \in NamedCustomers :
          /\ SourceIdOf(c) /= NoChannel
          /\ SourceIdOf(d) = NoChannel
          /\ HasEdge(raw.acquiredVia, d)
          /\ \E i \in 1..Len(raw.customers) : raw.customers[i].customerId = d

RECURSIVE SumSpend(_, _)
SumSpend(spendDaily, indices) ==
    IF indices = {} THEN 0
    ELSE LET i == CHOOSE k \in indices : TRUE
         IN  spendDaily[i].spend + SumSpend(spendDaily, indices \ {i})

\* The sum of the channel's daily rows dated day or later.
DailySpendSince(channelId, day) ==
    SumSpend(raw.channelSpendDaily,
             {i \in 1..Len(raw.channelSpendDaily) :
                 /\ raw.channelSpendDaily[i].channelId = channelId
                 /\ raw.channelSpendDaily[i].date >= day})

\* The channel's budgetSpend, 0 when the channel or its budget is missing.
BudgetSpendOf(channelId) ==
    IF \E i \in 1..Len(raw.channels) :
          raw.channels[i].channelId = channelId /\ raw.channels[i].budgetSpend /= Undefined
    THEN raw.channels[CHOOSE i \in 1..Len(raw.channels) :
                          raw.channels[i].channelId = channelId].budgetSpend
    ELSE 0

\* C13: after a recompute either the spend of every ChannelMetrics row is the sum
\* of that channel's ChannelSpendDaily rows (from one day on, the same day for
\* every row), or the spend of every row is that channel's budgetSpend (0 when
\* missing); never daily sums for some rows and budgets for others.
C13_OneSpendSource ==
    Materialized =>
        LET rows == derived.channelMetrics
        IN  \/ \E day \in 0..(MaxDay + 1) :
                  \A a \in 1..Len(rows) :
                      rows[a].spend = DailySpendSince(rows[a].channelId, day)
            \/ \A a \in 1..Len(rows) : rows[a].spend = BudgetSpendOf(rows[a].channelId)

\* Daily source: one row's channel has daily spend, the other's has none but has
\* a budget.
C13_Witness ==
    /\ Materialized
    /\ modelConfig.cacSpendSource = "daily"
    /\ \E a, b \in 1..Len(derived.channelMetrics) :
          /\ derived.channelMetrics[a].spend > 0
          /\ derived.channelMetrics[b].spend = 0
          /\ BudgetSpendOf(derived.channelMetrics[b].channelId) > 0

\* C14: every persisted ChannelMetrics row has acquiredCustomers >= 1,
\* 0 <= highLtvShare <= 1, cac >= 0, and cac and netValue are quotients by a
\* non-zero number.
C14_ChannelRowsInRange ==
    Materialized =>
        \A a \in 1..Len(derived.channelMetrics) :
            LET row == derived.channelMetrics[a]
            IN  /\ row.acquiredCustomers >= 1
                /\ row.highLtvShare.den > 0
                /\ 0 <= row.highLtvShare.num
                /\ row.highLtvShare.num <= row.highLtvShare.den
                /\ row.cac.den > 0
                /\ row.cac.num >= 0
                /\ row.netValue.den > 0

\* The CustomerMetrics rows of the customers whose channelSourceId is the channel.
AttributedTo(channelId) ==
    {i \in 1..Len(derived.customerMetrics) :
        SourceIdOf(derived.customerMetrics[i].customerId) = channelId}

RECURSIVE SumLtv(_, _)
SumLtv(customerMetrics, indices) ==
    IF indices = {} THEN 0
    ELSE LET i == CHOOSE k \in indices : TRUE
         IN  customerMetrics[i].ltv + SumLtv(customerMetrics, indices \ {i})

\* fraction = x / y, for y > 0
IsQuotient(fraction, x, y) == fraction.den > 0 /\ fraction.num * y = x * fraction.den

\* C15: for every ChannelMetrics row, acquiredCustomers is the number of customers
\* attributed to the channel, cac = spend / acquiredCustomers, avgLtv = (sum of
\* their ltv) / acquiredCustomers, highLtvShare = (number of them in segment
\* HIGH) / acquiredCustomers, and netValue = avgLtv - cac.
C15_ChannelRowFormulas ==
    Materialized =>
        \A a \in 1..Len(derived.channelMetrics) :
            LET row == derived.channelMetrics[a]
                attributed == AttributedTo(row.channelId)
                high == {i \in attributed : derived.customerMetrics[i].ltvSegment = "HIGH"}
            IN  /\ row.acquiredCustomers = Cardinality(attributed)
                /\ IsQuotient(row.cac, row.spend, row.acquiredCustomers)
                /\ IsQuotient(row.avgLtv, SumLtv(derived.customerMetrics, attributed),
                              row.acquiredCustomers)
                /\ IsQuotient(row.highLtvShare, Cardinality(high), row.acquiredCustomers)
                /\ row.netValue.den > 0
                /\ row.netValue.num * row.avgLtv.den * row.cac.den
                       = (row.avgLtv.num * row.cac.den - row.cac.num * row.avgLtv.den)
                         * row.netValue.den

\* A channel with spend and two customers, one of them in segment HIGH.
C15_Witness ==
    /\ Materialized
    /\ \E a \in 1..Len(derived.channelMetrics) :
          /\ derived.channelMetrics[a].acquiredCustomers = 2
          /\ derived.channelMetrics[a].highLtvCustomers = 1
          /\ derived.channelMetrics[a].spend > 0
          /\ derived.channelMetrics[a].avgLtv.num > 0

\* C16: a second recompute started after the first has returned, with no change to
\* the raw tables or the config in between, writes the derived tables the first
\* one wrote (computedAt and modelVersion are not part of the modelled rows), for
\* every configuration, also with a cacLookbackDays.
C16_SecondRunWritesTheSame ==
    pc[2] \in {"completeJob", "audit"} => derived = before[2]

\* C17: when the project has no customers or no channels, a recompute that has
\* returned has left the job COMPLETED, all three derived tables empty, and a
\* RECOMPUTE audit entry with customers = 0 and channels = 0.
C17_EmptyProjectEmptyTables ==
    \A j \in JobIds :
        (pc[j] = "done" /\ (raw.customers = <<>> \/ raw.channels = <<>>)) =>
            /\ jobs[j].status = "COMPLETED"
            /\ derived = EmptyDerived
            /\ \E i \in 1..Len(auditLog) :
                  /\ auditLog[i].type = "RECOMPUTE"
                  /\ auditLog[i].payload.customers = 0
                  /\ auditLog[i].payload.channels = 0

\* ---- the recommender's plan
RECURSIVE SumOf(_, _, _)
SumOf(items, field, i) ==
    IF i > Len(items) THEN Zero ELSE QAdd(items[i][field], SumOf(items, field, i + 1))

IsTarget(targets, channelId) == \E i \in 1..Len(targets) : targets[i].channelId = channelId

\* The deltas of the items that are increase targets.
RECURSIVE SumAdded(_, _)
SumAdded(items, i) ==
    IF i > Len(items) THEN Zero
    ELSE QAdd(IF IsTarget(plan.increaseTargets, items[i].channelId) THEN items[i].delta
              ELSE Zero,
              SumAdded(items, i + 1))

\* The deltas of the items that are not increase targets.
RECURSIVE SumRemoved(_, _)
SumRemoved(items, i) ==
    IF i > Len(items) THEN Zero
    ELSE QAdd(IF IsTarget(plan.increaseTargets, items[i].channelId) THEN Zero
              ELSE QSub(Zero, items[i].delta),
              SumRemoved(items, i + 1))

PlanReturned == plan.stage = "returned"

\* C18: the returned plan conserves total spend: the proposed spends add up to
\* the current spends, the deltas add up to 0, and what the increase targets gain
\* is what the decrease targets lost (the amount applyAdjustments returned for the
\* decrease pass), for every drawn list of channel metrics and every strategy.
C18_PlanConservesSpend ==
    PlanReturned =>
        /\ SumOf(plan.items, "proposedSpend", 1) = SumOf(plan.items, "currentSpend", 1)
        /\ SumOf(plan.items, "currentSpend", 1) = totalSpendOf(plan.metrics, 1)
        /\ SumOf(plan.items, "delta", 1) = Zero
        /\ SumAdded(plan.items, 1) = plan.actualDecrease
        /\ SumRemoved(plan.items, 1) = plan.actualDecrease

\* A returned plan that moved a positive amount between at least three channels.
C18_Witness ==
    /\ PlanReturned
    /\ Len(plan.items) >= 3
    /\ QLess(Zero, plan.actualDecrease)
    /\ Len(plan.increaseTargets) >= 2
    /\ \E i \in 1..Len(plan.items) : QLess(plan.items[i].delta, Zero)

\* C19 as stated: in the returned plan every increase target has delta > 0, every
\* decrease target that is not an increase target has delta <= 0, and every
\* channel touched by neither pass has delta = 0, its proposed spend equal to its
\* current spend and the strategy's hold rationale.
C19_TargetsMoveAsSelected ==
    PlanReturned =>
        \A i \in 1..Len(plan.items) :
            LET item == plan.items[i]
            IN  /\ IsTarget(plan.increaseTargets, item.channelId) => QLess(Zero, item.delta)
                /\ (/\ IsTarget(plan.decreaseTargets, item.channelId)
                    /\ ~IsTarget(plan.increaseTargets, item.channelId))
                        => QLeq(item.delta, Zero)
                /\ item.channelId \notin plan.touched
                        => /\ item.delta = Zero
                           /\ item.proposedSpend = item.currentSpend
                           /\ item.rationale = HOLD_RATIONALE(plan.strategy)

\* C19, amended: every increase target has delta > 0 when the decrease pass removed
\* a positive amount and delta = 0 when it removed nothing; every decrease target
\* that is not an increase target has delta <= 0; every channel touched by neither
\* pass has delta = 0, its proposed spend equal to its current spend and the
\* strategy's hold rationale.
C19_IncreaseNeedsRemovedSpend ==
    PlanReturned =>
        \A i \in 1..Len(plan.items) :
            LET item == plan.items[i]
            IN  /\ IsTarget(plan.increaseTargets, item.channelId)
                        => IF QLess(Zero, plan.actualDecrease) THEN QLess(Zero, item.delta)
                           ELSE item.delta = Zero
                /\ (/\ IsTarget(plan.decreaseTargets, item.channelId)
                    /\ ~IsTarget(plan.increaseTargets, item.channelId))
                        => QLeq(item.delta, Zero)
                /\ item.channelId \notin plan.touched
                        => /\ item.delta = Zero
                           /\ item.proposedSpend = item.currentSpend
                           /\ item.rationale = HOLD_RATIONALE(plan.strategy)

\* A returned plan with a raised increase target, a lowered decrease target and a
\* channel neither pass touched.
C19_Witness ==
    /\ PlanReturned
    /\ QLess(Zero, plan.actualDecrease)
    /\ \E i, j, k \in 1..Len(plan.items) :
        /\ IsTarget(plan.increaseTargets, plan.items[i].channelId)
        /\ QLess(Zero, plan.items[i].delta)
        /\ IsTarget(plan.decreaseTargets, plan.items[j].channelId)
        /\ ~IsTarget(plan.increaseTargets, plan.items[j].channelId)
        /\ QLess(plan.items[j].delta, Zero)
        /\ plan.items[k].channelId \notin plan.touched

\* A returned plan whose increase targets stayed where they were because the
\* decrease pass had nothing to remove.
C19_NothingRemoved ==
    /\ PlanReturned
    /\ Len(plan.increaseTargets) > 0
    /\ plan.actualDecrease = Zero

\* C20: the amount removed from the decrease targets, and so the amount added to
\* the increase targets, is at most the strategy's shift fraction of the total
\* current spend, and no proposed spend is below 0 when every current spend is
\* at least 0.
C20_ShiftWithinFraction ==
    PlanReturned =>
        LET limit == QMul(SHIFT_BY_STRATEGY(plan.strategy), totalSpendOf(plan.metrics, 1))
        IN  /\ QLeq(SumRemoved(plan.items, 1), limit)
            /\ QLeq(SumAdded(plan.items, 1), limit)
            /\ (\A i \in 1..Len(plan.items) : QLeq(Zero, plan.items[i].currentSpend))
                   => \A i \in 1..Len(plan.items) : QLeq(Zero, plan.items[i].proposedSpend)

\* The same bound over the plans whose current spends are all at least 0.
C20_ShiftWithinFractionOfSpend ==
    (PlanReturned /\ \A i \in 1..Len(plan.items) : QLeq(Zero, plan.items[i].currentSpend)) =>
        LET limit == QMul(SHIFT_BY_STRATEGY(plan.strategy), totalSpendOf(plan.metrics, 1))
        IN  /\ QLeq(SumRemoved(plan.items, 1), limit)
            /\ QLeq(SumAdded(plan.items, 1), limit)
            /\ \A i \in 1..Len(plan.items) : QLeq(Zero, plan.items[i].proposedSpend)

\* ================================================== the claims, C21 .. C30
\* Every item is held: proposed spend as current, no delta, the hold rationale.
AllHeld ==
    \A i \in 1..Len(plan.items) :
        /\ plan.items[i].proposedSpend = plan.items[i].currentSpend
        /\ plan.items[i].delta = Zero
        /\ plan.items[i].rationale = HOLD_RATIONALE(plan.strategy)

\* No decrease target that is not an increase target has a spend above 0.
NothingRemovable ==
    \A i \in 1..Len(plan.decreaseTargets) :
        IsTarget(plan.increaseTargets, plan.decreaseTargets[i].channelId)
            \/ plan.decreaseTargets[i].spend <= 0

\* C21: generateRecommendations returns a plan for every list: the empty plan
\* for the empty list, otherwise one item per channel in the order of the list;
\* and when there is no increase target or nothing can be removed from any
\* decrease target, every item keeps its current spend, delta 0 and the hold
\* rationale.
C21_NoOpPlan ==
    PlanReturned =>
        /\ Len(plan.metrics) = 0 => plan.items = <<>>
        /\ Len(plan.items) = Len(plan.metrics)
        /\ \A i \in 1..Len(plan.items) :
               /\ plan.items[i].channelId = plan.metrics[i].channelId
               /\ plan.items[i].currentSpend = QInt(plan.metrics[i].spend)
        /\ (Len(plan.increaseTargets) = 0 \/ NothingRemovable) => AllHeld

\* A returned plan over several channels with spend to move, whose decrease
\* target has nothing to give.
C21_Witness ==
    /\ PlanReturned
    /\ Len(plan.metrics) >= 2
    /\ QLess(Zero, totalSpendOf(plan.metrics, 1))
    /\ NothingRemovable
    /\ \E i \in 1..Len(plan.decreaseTargets) :
           ~IsTarget(plan.increaseTargets, plan.decreaseTargets[i].channelId)

\* A quantile in tenths that lies in (0, 1).
WellFormedQuantile(quantile) == quantile \in 1..9

\* The configuration with every malformed quantile replaced by its default.
WithDefaultQuantiles(config) ==
    [config EXCEPT
        !.segmentHighQuantile = IF WellFormedQuantile(@) THEN @ ELSE 9,
        !.segmentMidQuantile = IF WellFormedQuantile(@) THEN @ ELSE 7]

\* C22: no configuration makes the recompute fail; without an active ModelConfig
\* the run uses the defaults; and with a segmentHighQuantile or segmentMidQuantile
\* that is absent or outside (0, 1) the customers are segmented with the default
\* quantile (0.9, 0.7) in its place.
C22_ConfigErrorsFallBack ==
    /\ jobs[1].status /= "FAILED"
    /\ (pc[1] /= "start" /\ modelConfig = NoConfig) => cfg[1] = defaultModelConfig
    /\ CustomerComputed =>
           out[1].segments = assignSegments(out[1].totals, WithDefaultQuantiles(cfg[1]))

\* The step that commits a recompute's transaction on the derived tables.
MaterializationStep == \E j \in JobIds : pc[j] = "commit" /\ pc'[j] = "completeJob"

\* A clear() of handleClearData completes on a derived table.
ClearDataStep ==
    \E t \in {"customerMetrics", "channelMetrics", "segmentMetrics"} :
        /\ t \in clearing
        /\ t \notin clearing'
        /\ derived' = [derived EXCEPT ![t] = <<>>]

\* importProjectBundle fills the project it has created.
BundleImportStep == ~imported.exists /\ imported'.exists

ConfigInUse(config) == IF config = NoConfig THEN defaultModelConfig ELSE config

\* C24: the project a bundle import creates has the raw tables and the active
\* ModelConfig of the exported project, so that a recompute of it writes the same
\* three derived tables as a recompute of the exported project at the same time.
C24_BundleRoundTrip ==
    imported.exists =>
        /\ imported.raw = imported.source.raw
        /\ imported.modelConfig = ConfigInUse(imported.source.modelConfig)
        /\ PipelineTables(imported.raw, ConfigInUse(imported.modelConfig), clock)
               = PipelineTables(imported.source.raw,
                                ConfigInUse(imported.source.modelConfig), clock)

\* The recomputes alone: the derived tables of the two projects.
C24_SameMetricsAfterTransfer ==
    imported.exists =>
        PipelineTables(imported.raw, ConfigInUse(imported.modelConfig), clock)
            = PipelineTables(imported.source.raw,
                             ConfigInUse(imported.source.modelConfig), clock)

\* C25: at every moment at most one open tab of the project has write access
\* (hasWriteLock = true), for every order of opening, lock callbacks and
\* BroadcastChannel messages.
C25_OneWriterTab ==
    Cardinality({t \in TabIds : tabs[t].status = "open" /\ tabs[t].hasWriteLock}) <= 1

\* Every lock request has had its callback and every message has been handled.
TabsSettled ==
    \A t \in TabIds : tabs[t].status = "open" => (tabs[t].lock /= "requested" /\ tabs[t].inbox = 0)

\* The same once the lock requests and messages have settled.
C25_OneWriterOnceSettled ==
    TabsSettled =>
        Cardinality({t \in TabIds : tabs[t].status = "open" /\ tabs[t].hasWriteLock}) <= 1

\* C30: the tab that holds the Web Lock has write access for as long as it is
\* open, whatever tabs open beside it and whatever they broadcast; so when a tab
\* is open and the requests have settled, some tab has write access.
C30_LockHolderKeepsWriteAccess ==
    /\ \A t \in TabIds : tabs[t].lock = "held" => tabs[t].hasWriteLock
    /\ (TabsSettled /\ \E t \in TabIds : tabs[t].status = "open")
           => \E t \in TabIds : tabs[t].status = "open" /\ tabs[t].hasWriteLock

\* The decrease targets of the returned plan that are not increase targets, in
\* ranked order.
DecreasePassTargets ==
    SelectSeq(plan.decreaseTargets,
              LAMBDA target : ~IsTarget(plan.increaseTargets, target.channelId))

\* What the plan has taken from the channel.
ReductionOf(channelId) ==
    LET item == plan.items[CHOOSE i \in 1..Len(plan.items) :
                               plan.items[i].channelId = channelId]
    IN  QSub(item.currentSpend, item.proposedSpend)

\* What the plan has taken from the first k targets.
RECURSIVE ReducedUpTo(_, _)
ReducedUpTo(targets, k) ==
    IF k = 0 THEN Zero
    ELSE QAdd(ReductionOf(targets[k].channelId), ReducedUpTo(targets, k - 1))

\* shiftFraction * total current spend
DecreaseBudget == QMul(SHIFT_BY_STRATEGY(plan.strategy), totalSpendOf(plan.metrics, 1))

TargetsPicked == plan.stage = "picked" /\ plan.strategy = "high_efficiency"

Places == 1..Len(plan.metrics)
Picked(targets) == {i \in Places : IsTarget(targets, plan.metrics[i].channelId)}
ShareAt(i) == plan.metrics[i].highLtvShare
RatioAt(i) == ratioOf(plan.metrics[i])

Efficient == {i \in Places : QLeq(Q(3, 10), ShareAt(i)) /\ QLeq(QInt(2), RatioAt(i))}
LowRatio == {i \in Places : QLess(RatioAt(i), Q(12, 10))}
LowShare == {i \in Places : QLess(ShareAt(i), Q(15, 100))}

\* Place i is ahead of place k by HIGH share, then ratio.
AheadByShare(i, k) ==
    \/ QLess(ShareAt(k), ShareAt(i))
    \/ QEq(ShareAt(k), ShareAt(i)) /\ QLess(RatioAt(k), RatioAt(i))

\* S holds count places of From, none of them behind a place of From it leaves out.
TopByShare(S, From, count) ==
    /\ S \subseteq From
    /\ Cardinality(S) = (IF count < Cardinality(From) THEN count ELSE Cardinality(From))
    /\ \A i \in S, k \in From \ S : ~AheadByShare(k, i)

\* S holds the count places of From with the lowest ratios.
BottomByRatio(S, From, count) ==
    /\ S \subseteq From
    /\ Cardinality(S) = (IF count < Cardinality(From) THEN count ELSE Cardinality(From))
    /\ \A i \in S, k \in From \ S : QLeq(RatioAt(i), RatioAt(k))

AllFinished == /\ \A j \in JobIds : pc[j] \in {"idle", "done"}
               /\ \E j \in JobIds : pc[j] = "done"

\* C28: once every import and recompute of the project has finished (none has
\* thrown), the derived tables are the pipeline's output for the raw tables and the
\* config as they are then: no run that read an older snapshot has the last word.
C28_FinalTablesMatchFinalData ==
    AllFinished =>
        derived = PipelineTables(raw, ConfigInUse(modelConfig), clock)

\* ---- what a compute job reports, and when
Phases ==
    <<"computing customer metrics", "computing channel metrics",
      "writing materialized tables">>

IsPrefix(s, t) == Len(s) <= Len(t) /\ \A i \in 1..Len(s) : s[i] = t[i]

\* The phases job j has reported so far.
Reported(j) == SelectSeq(msgs[j], LAMBDA m : m \notin {"completed", "error"})

HasCompleted(j) == \E i \in 1..Len(msgs[j]) : msgs[j][i] = "completed"

TablesOf(results) ==
    [customerMetrics |-> results.customerMetrics,
     segmentMetrics |-> results.segmentMetrics,
     channelMetrics |-> results.channelMetrics]

====
